---- MODULE Spec2Model ----
(***************************************************************************)
(* Model of the study-assistant query core:                                *)
(*   agents/root_agent.py          RootAgent (orchestrator, upload cache)  *)
(*   agents/file_selector_agent.py FileSelectorAgent (Anchor Cluster)      *)
(*                                                                         *)
(* Twelve specifications share the variables:                              *)
(*   Spec     the orchestrator: scope resolution, session upload cache,    *)
(*            upload, generation and streaming, with overlapping           *)
(*            invocations and clear_session;                               *)
(*   SpecKeys the orchestrator serving queries with user-provided API keys;*)
(*   SpecScope the orchestrator resolving selections that repeat documents;*)
(*   SpecOverlap the orchestrator serving overlapping queries on a session;*)
(*   SpecSel  one run of select_relevant_files (deep strategy);            *)
(*   SpecBus  the selection task running concurrently with the             *)
(*            orchestrator's polling loop and final drain;                 *)
(*   SpecNorm strip_extension_for_matching applied to bounded identifiers; *)
(*   SpecFast the single-call strategy of the selector;                    *)
(*   SpecCall one invocation of _call_ai_with_fallback;                    *)
(*   SpecAnchors the anchor step of the selector on longer candidate lists;*)
(*   SpecCount the number of files inferred from the query text;           *)
(*   SpecLive a query, a relayed selection and a helper call under the     *)
(*            fairness the event loop gives them.                          *)
(* The variables a specification does not use stay at their initial value. *)
(***************************************************************************)
EXTENDS Integers, Sequences, FiniteSets, TLC

VARIABLES
    \* ---- orchestrator (root_agent.py) ----
    env,              \* the collaborators and callers of this run (fixed):
                      \*   catalog      document_manager.get_material_catalog(...)["materials"]
                      \*   summaries    chat_storage.get_all_summaries_for_course(...) (doc ids)
                      \*   chat_storage RootAgent.chat_storage is set
                      \*   requests     argument tuples callers pass to process_query_stream
                      \*   max_chunks   longest stream the generation service returns
                      \*   stop_check   a stop_check_callback is passed
    session_uploads,  \* RootAgent.session_uploads
    inv,              \* one frame of process_query_stream per invocation slot
    budget,           \* invocations that may still be started
    last,             \* history: per session, the last undisturbed completed query
    \* ---- selector (file_selector_agent.py) ----
    sel,              \* frame of select_relevant_files / global_discovery / scoped_refinement
    file_summaries,   \* the caller's list object handed to the selector (sorted in place)
    fields,           \* what the selector adds to each summary dict ('_score', '_anchor_score')
    emitted,          \* history: status_callback calls, in order
    \* ---- progress event bus (root_agent.py, smart-selection branch) ----
    status_queue,     \* asyncio.Queue()
    poll,             \* position of the polling loop / final drain
    relayed,          \* history: [STATUS] items yielded from the queue, in order
    \* ---- identifier normalisation (root_agent.py, static method) ----
    norm,             \* calls of strip_extension_for_matching and what they returned
    \* ---- external model call (file_selector_agent.py) ----
    call,             \* one invocation of _call_ai_with_fallback
    \* ---- requested number of files (root_agent.py 190-207) ----
    req               \* a query text and the max_files inferred from it

orchVars == <<env, session_uploads, inv, budget, last>>
selVars  == <<sel, file_summaries, fields, emitted>>
busVars  == <<status_queue, poll, relayed>>
normVars == <<norm, call, req>>   \* the helpers checked on their own
vars     == <<env, session_uploads, inv, budget, last,
              sel, file_summaries, fields, emitted, status_queue, poll, relayed, norm, call,
              req>>

----------------------------------------------------------------------------
(* Generic helpers *)

Range(s) == {s[i] : i \in 1..Len(s)}

Min(a, b) == IF a <= b THEN a ELSE b

Take(s, n) == SubSeq(s, 1, Min(n, Len(s)))

RECURSIVE SelectSeqBy(_, _)
\* [x for x in s if x \in S]
SelectSeqBy(s, S) ==
    IF s = <<>> THEN <<>>
    ELSE (IF Head(s) \in S THEN <<Head(s)>> ELSE <<>>) \o SelectSeqBy(Tail(s), S)

RECURSIVE Flatten(_)
Flatten(ss) == IF ss = <<>> THEN <<>> ELSE Head(ss) \o Flatten(Tail(ss))

IsPrefix(s, t) == Len(s) <= Len(t) /\ SubSeq(t, 1, Len(s)) = s

NoDup(s) == \A i, j \in 1..Len(s) : i # j => s[i] # s[j]

----------------------------------------------------------------------------
(* Identifiers: a document id is a sequence of characters *)

None == "None"      \* Python None where a string is expected (session ids)
NoId == <<>>        \* Python None / "" where a document id is expected

FirstIndex(s, c) == CHOOSE i \in 1..Len(s) : s[i] = c /\ \A j \in 1..(i-1) : s[j] # c
LastIndex_First(s, c) == FirstIndex(s, c)
LastIndex(s, c)  == CHOOSE i \in 1..Len(s) : s[i] = c /\ \A j \in (i+1)..Len(s) : s[j] # c

\* RootAgent.strip_extension_for_matching
strip_extension_for_matching(doc_id) ==
    IF "_" \in Range(doc_id)
    THEN LET i        == FirstIndex(doc_id, "_")
             course   == SubSeq(doc_id, 1, i - 1)
             filename == SubSeq(doc_id, i + 1, Len(doc_id))
         IN  IF "." \in Range(filename)
             THEN course \o <<"_">> \o SubSeq(filename, 1, LastIndex(filename, ".") - 1)
             ELSE doc_id
    ELSE doc_id

Id_a   == <<"1", "_", "a", ".", "p">>
Id_a_x == <<"1", "_", "a", ".", "x">>    \* the same document before conversion
Id_b   == <<"1", "_", "b", ".", "p">>
Id_n   == <<"1", "_", "n", ".", "p">>
Id_s   == <<"1", "_", "s", ".", "p">>    \* the syllabus
Id_s_x == <<"1", "_", "s", ".", "x">>    \* the syllabus before conversion
Id_z   == <<"1", "_", "z", ".", "p">>    \* not in the catalog

\* catalog entries {id, path}; an entry may lack a storage path
M_a == [id |-> Id_a, path |-> "/a"]
M_b == [id |-> Id_b, path |-> "/b"]
M_n == [id |-> Id_n, path |-> ""]
M_s == [id |-> Id_s, path |-> "/s"]
----------------------------------------------------------------------------
(* Orchestrator: RootAgent.process_query_stream and RootAgent.clear_session *)

Procs    == {1, 2}                \* invocation slots (overlapping queries)
Sessions == {"s1", "s2"}          \* session identifiers
SessionIds == Sessions \cup {None}

MaxQueries == 2                   \* invocations started in one behaviour
MaxChunks  == 1                   \* chunks of one generation stream

Truthy(x) == x # None          \* truth value of a session id
TruthyId(x) == x # NoId        \* truth value of a document id

EmptyDict == [k \in {} |-> {}]    \* the Python literal {}

\* dict.get(key, default)
Get(d, k, default) == IF k \in DOMAIN d THEN d[k] ELSE default

\* user_api_key and the API client the invocation works with (lines 115-128)
NoKey         == ""               \* user_api_key = None
DefaultClient == "default"        \* self.client
Keys          == { NoKey, "k1", "k2" }
ApiClient(user_api_key) == IF user_api_key # NoKey THEN user_api_key ELSE DefaultClient

\* UploadedFileRef returned by the upload service for one path; the file
\* lives with the client (API key) that uploaded it
Handle(path, client) == [uri |-> path, client |-> client]

SyllabusChoices == { NoId, Id_s }

MaxFilesDefault == 15       \* line 192

\* max_files: what lines 191-207 make of the count named in user_message
Request(sid, sdocs, syl, smart, max_files) ==
    [session_id |-> sid, selected_docs |-> sdocs, syllabus_id |-> syl,
     use_smart_selection |-> smart, max_files |-> max_files, user_api_key |-> NoKey]

FullCatalog == <<M_a, M_b, M_n, M_s>>

\* Session-cache runs: several (possibly overlapping) queries with equal,
\* nested, overlapping and path-less selections, chat-only queries, queries
\* without a session; the generation stream is empty
CacheRequests ==
    { Request("s1", sdocs, NoId, FALSE, MaxFilesDefault) :
        sdocs \in { <<>>, <<Id_a>>, <<Id_a_x, Id_n>>, <<Id_n, Id_b>>, <<Id_n>> } }
    \cup { Request("s2", <<Id_a, Id_b>>, NoId, FALSE, MaxFilesDefault),
           Request(None, <<Id_a>>, NoId, FALSE, MaxFilesDefault) }
CacheEnv ==
    [catalog |-> FullCatalog, summaries |-> <<>>, chat_storage |-> TRUE,
     requests |-> CacheRequests, max_chunks |-> 0, stop_check |-> FALSE]

\* Single-query runs: AI-assisted and manual resolution against each kind of
\* deployment (no summaries stored, summaries stored under the catalog's ids,
\* a summary stored under the id a document had before conversion), and a
\* generation stream of up to MaxChunks chunks
QueryRequests ==
    { Request("s1", sdocs, syl, smart, max_files) :
        sdocs \in { <<>>, <<Id_a_x>>, <<Id_z>>, <<Id_a_x, Id_z>> }, syl \in SyllabusChoices,
        smart \in BOOLEAN, max_files \in { 1, MaxFilesDefault } }
QueryEnvs ==
    { [catalog |-> c, summaries |-> sm, chat_storage |-> cs,
       requests |-> QueryRequests, max_chunks |-> MaxChunks, stop_check |-> sc] :
        c \in { <<>>, FullCatalog }, sm \in { <<>>, <<Id_a, Id_s>>, <<Id_a_x>> },
        cs \in BOOLEAN,
        sc \in BOOLEAN }

\* Runs with user-provided API keys: queries on one session for the same or
\* for another selection, each with the default client or with a user's key
KeyRequests ==
    { [Request("s1", sdocs, NoId, FALSE, MaxFilesDefault) EXCEPT !.user_api_key = k] :
        sdocs \in { <<Id_a>> }, k \in Keys }
    \cup { Request("s1", <<Id_b>>, NoId, FALSE, MaxFilesDefault) }
KeyEnv ==
    [catalog |-> FullCatalog, summaries |-> <<>>, chat_storage |-> TRUE,
     requests |-> KeyRequests, max_chunks |-> MaxChunks, stop_check |-> FALSE]

\* Overlapping runs: queries on one session for two different selections,
\* two of them in flight at a time
OverlapRequests ==
    { Request("s1", sdocs, NoId, FALSE, MaxFilesDefault) : sdocs \in { <<Id_a>>, <<Id_b>> } }
OverlapEnv ==
    [catalog |-> FullCatalog, summaries |-> <<>>, chat_storage |-> TRUE,
     requests |-> OverlapRequests, max_chunks |-> MaxChunks, stop_check |-> FALSE]

\* Scope runs: one query whose selection repeats an identifier, names a
\* document under two identifiers, or names the syllabus under the
\* identifier it had before conversion
ScopeRequests ==
    { Request("s1", sdocs, syl, smart, MaxFilesDefault) :
        sdocs \in { <<Id_a, Id_b>>, <<Id_a, Id_a>>, <<Id_a, Id_a_x>>, <<Id_s_x, Id_a>>, <<Id_s>> },
        syl \in SyllabusChoices, smart \in BOOLEAN }
ScopeEnv ==
    [catalog |-> FullCatalog, summaries |-> <<Id_a, Id_s>>, chat_storage |-> TRUE,
     requests |-> ScopeRequests, max_chunks |-> MaxChunks, stop_check |-> FALSE]

\* cleared: clear_session removed the record of the session since its last
\* query, and the doc_ids that record held
NoLast == [ids |-> {}, cached |-> FALSE, uploaded |-> FALSE, valid |-> FALSE,
           cleared |-> FALSE, cleared_ids |-> {}]

\* what the uploader answered: upload_result's success flag and the sizes of
\* its 'files' and 'failed' lists
NoUploadResult == [state |-> "none", success |-> FALSE, files |-> 0, failed |-> 0]

IdleFrame ==
    [ pc                  |-> "idle",
      session_id          |-> None,
      selected_docs       |-> <<>>,
      syllabus_id         |-> NoId,
      use_smart_selection |-> FALSE,
      materials_to_use    |-> <<>>,
      selected_doc_ids    |-> {},
      session_cache       |-> EmptyDict,
      need_upload         |-> FALSE,
      file_paths          |-> <<>>,
      uploaded_files      |-> <<>>,
      out                 |-> <<>>,
      api_client          |-> DefaultClient,
      gen_called          |-> FALSE,
      chunks_left         |-> 0,
      \* history
      max_files           |-> MaxFilesDefault,
      branch              |-> "none",      \* how step 2 resolved the materials
      matched             |-> <<>>,        \* materials_to_use at line 331
      selected_files      |-> <<>>,        \* doc_ids of the selection task's result
      upload_calls        |-> 0,
      upload_result       |-> NoUploadResult,
      consulted           |-> 0,           \* calls of stop_check_callback
      stopped             |-> FALSE,       \* stop_check_callback answered True
      wrote_cache         |-> FALSE,
      replaced            |-> EmptyDict,   \* the record the write at 457 replaced
      cleared_waiting     |-> FALSE,       \* clear_session ran during the pending upload await
      prev                |-> NoLast,
      overlap             |-> FALSE ]

\* lines 307-331: manual selection matched through the stripped identifier
ManualMatch_ExactId(all_materials, selected_docs) ==
    Flatten([ i \in 1..Len(selected_docs) |->
                SelectSeq(all_materials, LAMBDA m : m.id = selected_docs[i]) ])
ManualMatch(all_materials, selected_docs) ==
    Flatten([ i \in 1..Len(selected_docs) |->
                SelectSeq(all_materials,
                          LAMBDA m : strip_extension_for_matching(m.id)
                                       = strip_extension_for_matching(selected_docs[i])) ])

\* lines 273-276 and 350-353: append the syllabus entry unless already selected
WithSyllabus_Never(materials, all_materials, syllabus_id, selected_ids) == materials
WithSyllabus(materials, all_materials, syllabus_id, selected_ids) ==
    IF TruthyId(syllabus_id) /\ syllabus_id \notin selected_ids
    THEN LET found == SelectSeq(all_materials, LAMBDA m : m.id = syllabus_id)
         IN  IF found # <<>> THEN Append(materials, Head(found)) ELSE materials
    ELSE materials

\* lines 266-276: materials chosen from the Selector's result (exact id match)
SmartMatch(all_materials, selected_files, syllabus_id) ==
    WithSyllabus(SelectSeq(all_materials, LAMBDA m : m.id \in Range(selected_files)),
                 all_materials, syllabus_id, Range(selected_files))

\* what select_relevant_files can hand back: summaries pruned and reordered;
\* the orchestrator uses only the ids, so one order per subset is kept
\* (in Scoped Refinement only summaries of the user's selection come back)
SelectorResults(file_sums, selected_docs, max_files) ==
    LET cand == IF selected_docs = <<>> THEN Range(file_sums)
                ELSE Range(file_sums) \cap Range(selected_docs)
    IN  { SelectSeqBy(file_sums, S) : S \in {T \in SUBSET cand : Cardinality(T) <= max_files} }

OtherOnSession(p, s) ==
    \E o \in Procs \ {p} : inv[o].pc # "idle" /\ inv[o].session_id = s

\* frames of the other invocations, flagged when p starts on their session
MarkOverlap(p, s) ==
    [o \in Procs |->
        IF o # p /\ Truthy(s) /\ inv[o].pc # "idle" /\ inv[o].session_id = s
        THEN [inv[o] EXCEPT !.overlap = TRUE] ELSE inv[o]]

\* lines 138-370: the materials the query resolves to, and the items yielded
\* on the way; stored_syllabus is chat_storage.get_course_syllabus(...),
\* selected_files the result of the selection task
Resolve(sdocs, syl, smart, stored_syllabus, selected_files) ==
    IF smart /\ env.chat_storage
    THEN IF env.summaries = <<>>
         THEN [materials |-> env.catalog, syllabus_id |-> syl, branch |-> "smart",
               matched |-> <<>>, selected_files |-> <<>>,
               out |-> <<"status_no_summaries">>]
         ELSE LET syl2 == IF ~TruthyId(syl) THEN stored_syllabus ELSE syl
              IN  IF selected_files = <<>>
                  THEN [materials |-> env.catalog, syllabus_id |-> syl2, branch |-> "smart",
                        matched |-> <<>>, selected_files |-> <<>>,
                        out |-> <<"status_error">>]
                  ELSE [materials |-> SmartMatch(env.catalog, selected_files, syl2),
                        syllabus_id |-> syl2, branch |-> "smart",
                        matched |-> <<>>, selected_files |-> selected_files,
                        out |-> <<"status_complete">>]
    ELSE IF sdocs # <<>>
         THEN LET matched == ManualMatch(env.catalog, sdocs) IN
              [materials |-> WithSyllabus(matched, env.catalog, syl, Range(sdocs)),
               syllabus_id |-> syl, branch |-> "manual", matched |-> matched,
               selected_files |-> <<>>, out |-> <<>>]
         ELSE [materials |-> <<>>, syllabus_id |-> syl, branch |-> "none",
               matched |-> <<>>, selected_files |-> <<>>, out |-> <<>>]

\* line 401: the uploaded handles of the session are reused
CacheHit_Superset(session_id, cached_doc_ids, selected_doc_ids) ==
    Truthy(session_id) /\ selected_doc_ids \subseteq cached_doc_ids
CacheHit(session_id, cached_doc_ids, selected_doc_ids) ==
    Truthy(session_id) /\ cached_doc_ids = selected_doc_ids

\* lines 114-418: process_query_stream up to its first await on the uploader
\* (or up to the generation call on a cache hit or in chat-only mode)
BeginFrame(p, sid, sdocs, syl, smart, stored_syllabus, selected_files) ==
    LET base == [IdleFrame EXCEPT
                    !.session_id = sid, !.selected_docs = sdocs,
                    !.use_smart_selection = smart,
                    !.overlap = Truthy(sid) /\ OtherOnSession(p, sid),
                    !.prev = IF Truthy(sid) /\ ~OtherOnSession(p, sid)
                             THEN last[sid] ELSE NoLast]
    IN
    IF env.catalog = <<>>
    THEN [base EXCEPT !.syllabus_id = syl, !.pc = "done", !.out = <<"no_materials">>]
    ELSE
    LET r    == Resolve(sdocs, syl, smart, stored_syllabus, selected_files)
        mats == r.materials
        f1   == [base EXCEPT !.syllabus_id = r.syllabus_id, !.branch = r.branch,
                             !.matched = r.matched,
                             !.selected_files = r.selected_files,
                             !.materials_to_use = mats, !.out = r.out]
    IN
    IF mats = <<>>
    THEN IF ~smart /\ sdocs = <<>>
         THEN [f1 EXCEPT !.pc = "generate"]
         ELSE [f1 EXCEPT !.pc = "done", !.out = Append(@, "no_documents")]
    ELSE
    LET selected_doc_ids == {mats[i].id : i \in 1..Len(mats)}
        session_cache    == Get(session_uploads, sid, EmptyDict)
        cached_doc_ids   == Get(session_cache, "doc_ids", {})
        file_paths       == [i \in 1..Len(SelectSeq(mats, LAMBDA m : m.path # "")) |->
                                SelectSeq(mats, LAMBDA m : m.path # "")[i].path]
        f2 == [f1 EXCEPT !.selected_doc_ids = selected_doc_ids,
                         !.session_cache = session_cache]
    IN
    IF CacheHit(sid, cached_doc_ids, selected_doc_ids)
    THEN [f2 EXCEPT !.uploaded_files = Get(session_cache, "file_info", <<>>),
                    !.pc = "generate"]
    ELSE IF file_paths = <<>>
         THEN [f2 EXCEPT !.need_upload = TRUE, !.pc = "done",
                         !.out = Append(@, "error_no_paths")]
         ELSE [f2 EXCEPT !.need_upload = TRUE, !.file_paths = file_paths,
                         !.upload_calls = 1, !.pc = "upload"]

Begin(p) ==
    /\ inv[p].pc = "idle"
    /\ \A o \in Procs : o < p => inv[o].pc # "idle"     \* lowest free slot
    /\ budget > 0
    /\ \E r \in env.requests, stored_syllabus \in SyllabusChoices :
         \E selected_files \in SelectorResults(env.summaries, r.selected_docs, r.max_files) :
            inv' = [MarkOverlap(p, r.session_id) EXCEPT
                      ![p] = [BeginFrame(p, r.session_id, r.selected_docs, r.syllabus_id,
                                         r.use_smart_selection, stored_syllabus, selected_files)
                                EXCEPT !.max_files = r.max_files,
                                       !.api_client = ApiClient(r.user_api_key)]]
    /\ budget' = budget - 1
    /\ UNCHANGED <<env, session_uploads, last>>
    /\ UNCHANGED <<selVars, busVars, normVars>>

OrchFrozen == UNCHANGED <<selVars, busVars, normVars>>

\* lines 428-429: the files / failed lists of an upload result in which
\* exactly the paths at the positions in ok were uploaded
UploadedOf(file_paths, ok, client) ==
    LET idx == SelectSeqBy([i \in 1..Len(file_paths) |-> i], ok)
    IN  [i \in 1..Len(idx) |-> Handle(file_paths[idx[i]], client)]
FailedOf(file_paths, ok) ==
    SelectSeqBy([i \in 1..Len(file_paths) |-> i], (1..Len(file_paths)) \ ok)

\* lines 455-461: the record cached for a session after an upload round
CacheRecord(selected_doc_ids, uploaded_files) ==
    [doc_ids |-> selected_doc_ids, file_info |-> uploaded_files]

\* self.session_uploads[session_id] = record
DictSet_NoWrite(d, k, v) == d
DictSet_FilesOnly(d, k, v) ==
    IF k \in DOMAIN d THEN [d EXCEPT ![k].file_info = v.file_info]
    ELSE [x \in (DOMAIN d) \cup {k} |-> IF x = k THEN v ELSE d[x]]
DictSet(d, k, v) == [x \in (DOMAIN d) \cup {k} |-> IF x = k THEN v ELSE d[x]]
\* del self.session_uploads[session_id]
DictDel_Keep(d, k) == d
DictDel(d, k) == [x \in (DOMAIN d) \ {k} |-> d[x]]

\* lines 464-476: the upload status message; with failures it lists them
UploadStatus_Silent(uploaded_files, failed_files) == "loaded"
UploadStatus(uploaded_files, failed_files) ==
    IF failed_files # <<>> THEN "loaded_with_failures" ELSE "loaded"

\* lines 422-476: the frame and the cache after the uploader returned
\* upload_result = {success, files: uploaded_files, failed: failed_files}
SettleUpload_CacheFirst(f, cache, success, uploaded_files, failed_files) ==
    IF ~success
    THEN [frame |-> [f EXCEPT !.pc = "done", !.out = Append(@, "error_uploading")],
          cache |-> cache]
    ELSE LET cache2 == IF Truthy(f.session_id)
                       THEN DictSet(cache, f.session_id,
                                    CacheRecord(f.selected_doc_ids, uploaded_files))
                       ELSE cache
         IN
         IF Len(uploaded_files) = 0
         THEN [frame |-> [f EXCEPT
                            !.pc = "done",
                            !.out = @ \o <<"no_files_uploaded">>
                                      \o (IF failed_files # <<>> THEN <<"failed_list">> ELSE <<>>)
                                      \o <<"supported_formats", "tip">>],
               cache |-> cache2]
         ELSE [frame |-> [f EXCEPT
                            !.pc = "generate",
                            !.uploaded_files = uploaded_files,
                            !.wrote_cache = Truthy(f.session_id),
                            !.replaced = Get(cache, f.session_id, EmptyDict),
                            !.out = Append(@, UploadStatus(uploaded_files, failed_files))],
               cache |-> cache2]
SettleUpload(f, cache, success, uploaded_files, failed_files) ==
    IF ~success
    THEN [frame |-> [f EXCEPT !.pc = "done", !.out = Append(@, "error_uploading")],
          cache |-> cache]
    ELSE IF Len(uploaded_files) = 0
    THEN [frame |-> [f EXCEPT
                       !.pc = "done",
                       !.out = @ \o <<"no_files_uploaded">>
                                 \o (IF failed_files # <<>> THEN <<"failed_list">> ELSE <<>>)
                                 \o <<"supported_formats", "tip">>],
          cache |-> cache]
    ELSE [frame |-> [f EXCEPT
                       !.pc = "generate",
                       !.uploaded_files = uploaded_files,
                       !.wrote_cache = Truthy(f.session_id),
                       !.replaced = Get(cache, f.session_id, EmptyDict),
                       !.out = Append(@, UploadStatus(uploaded_files, failed_files))],
          cache |-> IF Truthy(f.session_id)
                    THEN DictSet(cache, f.session_id,
                                 CacheRecord(f.selected_doc_ids, uploaded_files))
                    ELSE cache]

\* lines 420-476: the uploader returns (or raises) and the round is settled
UploadReturn(p) ==
    /\ inv[p].pc = "upload"
    /\ \/ \* upload_multiple_pdfs_async raised: handler at lines 682-687
          /\ inv' = [inv EXCEPT ![p].pc = "done",
                                ![p].cleared_waiting = FALSE,
                                ![p].upload_result = [NoUploadResult EXCEPT !.state = "raised"],
                                ![p].out = Append(@, "error_exception")]
          /\ UNCHANGED session_uploads
       \/ \E success \in BOOLEAN, ok \in SUBSET (1..Len(inv[p].file_paths)) :
            LET uploaded_files == UploadedOf(inv[p].file_paths, ok, inv[p].api_client)
                failed_files   == FailedOf(inv[p].file_paths, ok)
                r == SettleUpload(inv[p], session_uploads, success, uploaded_files, failed_files)
            IN  /\ inv' = [inv EXCEPT ![p] =
                             [r.frame EXCEPT !.cleared_waiting = FALSE,
                                             !.upload_result =
                                 [state |-> "returned", success |-> success,
                                  files |-> Len(uploaded_files), failed |-> Len(failed_files)]]]
                /\ session_uploads' = r.cache
    /\ UNCHANGED <<env, budget, last>>
    /\ OrchFrozen

\* lines 478-631: payload built, generate_content_stream awaited
GenerateCall_StopAware(p) ==
    /\ inv[p].pc = "generate"
    /\ \/ /\ env.stop_check
          /\ inv' = [inv EXCEPT ![p].pc = "done", ![p].consulted = @ + 1,
                                ![p].stopped = TRUE]
       \/ \E n \in 0..env.max_chunks :
            inv' = [inv EXCEPT ![p].pc = "stream", ![p].gen_called = TRUE,
                               ![p].chunks_left = n]
       \/ inv' = [inv EXCEPT ![p].pc = "done", ![p].gen_called = TRUE,
                             ![p].out = Append(@, "error_exception")]
    /\ UNCHANGED <<env, session_uploads, budget, last>>
    /\ UNCHANGED <<selVars, busVars, normVars>>
GenerateCall(p) ==
    /\ inv[p].pc = "generate"
    /\ \/ \E n \in 0..env.max_chunks :
            inv' = [inv EXCEPT ![p].pc = "stream", ![p].gen_called = TRUE,
                               ![p].chunks_left = n]
       \/ inv' = [inv EXCEPT ![p].pc = "done", ![p].gen_called = TRUE,
                             ![p].out = Append(@, "error_exception")]
    /\ UNCHANGED <<env, session_uploads, budget, last>>
    /\ OrchFrozen

\* lines 638-677: one chunk of the stream.  stop is what stop_check_callback
\* answers for it, text whether chunk.text is non-empty, sources whether the
\* chunk carries web sources that are still to be shown
OnChunk_RelayThenCheck(f, consult, stop, text, sources) ==
    LET g == [f EXCEPT !.consulted = IF consult THEN @ + 1 ELSE @,
                       !.chunks_left = @ - 1,
                       !.out = @ \o (IF text THEN <<"chunk">> ELSE <<>>)
                                 \o (IF sources THEN <<"web_sources">> ELSE <<>>)]
    IN  IF consult /\ stop THEN [g EXCEPT !.pc = "done", !.stopped = TRUE] ELSE g
OnChunk(f, consult, stop, text, sources) ==
    LET g == [f EXCEPT !.consulted = IF consult THEN @ + 1 ELSE @] IN
    IF consult /\ stop
    THEN [g EXCEPT !.pc = "done", !.stopped = TRUE]
    ELSE [g EXCEPT !.chunks_left = @ - 1,
                   !.out = @ \o (IF text THEN <<"chunk">> ELSE <<>>)
                             \o (IF sources THEN <<"web_sources">> ELSE <<>>)]

StreamChunk(p) ==
    /\ inv[p].pc = "stream"
    /\ inv[p].chunks_left > 0
    /\ \E stop \in BOOLEAN, text \in BOOLEAN, sources \in BOOLEAN :
         inv' = [inv EXCEPT ![p] = OnChunk(inv[p], env.stop_check, stop, text, sources)]
    /\ UNCHANGED <<env, session_uploads, budget, last>>
    /\ OrchFrozen

\* line 638/680: the stream is exhausted, or iterating it raised (682-687)
StreamEnd(p) ==
    /\ inv[p].pc = "stream"
    /\ \/ /\ inv[p].chunks_left = 0
          /\ inv' = [inv EXCEPT ![p].pc = "done"]
       \/ inv' = [inv EXCEPT ![p].pc = "done", ![p].out = Append(@, "error_exception")]
    /\ UNCHANGED <<env, session_uploads, budget, last>>
    /\ OrchFrozen

\* the generator is exhausted; the slot is free for the next invocation
Finish(p) ==
    /\ inv[p].pc = "done"
    /\ inv' = [inv EXCEPT ![p] = IdleFrame]
    /\ last' = IF Truthy(inv[p].session_id)
               THEN [last EXCEPT ![inv[p].session_id] =
                        IF inv[p].overlap THEN NoLast
                        ELSE [ids    |-> inv[p].selected_doc_ids,
                              cached |-> inv[p].wrote_cache
                                         \/ (inv[p].selected_doc_ids # {} /\ ~inv[p].need_upload),
                              uploaded |-> inv[p].wrote_cache,
                              valid  |-> TRUE,
                              cleared |-> FALSE, cleared_ids |-> {}]]
               ELSE last
    /\ UNCHANGED <<env, session_uploads, budget>>
    /\ OrchFrozen

\* lines 78-82: RootAgent.clear_session
clear_session(s) ==
    /\ session_uploads' = IF s \in DOMAIN session_uploads
                          THEN DictDel(session_uploads, s) ELSE session_uploads
    /\ last' = [last EXCEPT ![s] =
                  IF s \in DOMAIN session_uploads
                  THEN [NoLast EXCEPT !.cleared = TRUE,
                                      !.cleared_ids = session_uploads[s].doc_ids]
                  ELSE NoLast]
    /\ inv' = [o \in Procs |->
                 IF inv[o].pc # "idle" /\ inv[o].session_id = s
                 THEN [inv[o] EXCEPT !.overlap = TRUE,
                                     !.cleared_waiting = @ \/ inv[o].pc = "upload"]
                 ELSE inv[o]]
    /\ UNCHANGED <<env, budget>>
    /\ OrchFrozen

\* ---- the selector and bus variables while a specification does not use them
SelIdle == [pc |-> "off"]
SelFrozenInit ==
    /\ sel = SelIdle
    /\ file_summaries = <<>>
    /\ fields = <<>>
    /\ emitted = <<>>
BusFrozenInit ==
    /\ status_queue = <<>>
    /\ poll = "off"
    /\ relayed = <<>>
NormIdle == [pc |-> "off"]
CallIdle == [pc |-> "off"]
NormFrozenInit == norm = NormIdle /\ call = CallIdle /\ req = [pc |-> "off"]

OrchInit(e, b) ==
    /\ env = e
    /\ budget = b
    /\ session_uploads = EmptyDict
    /\ inv = [p \in Procs |-> IdleFrame]
    /\ last = [s \in Sessions |-> NoLast]

InitCache == OrchInit(CacheEnv, MaxQueries) /\ SelFrozenInit /\ BusFrozenInit /\ NormFrozenInit
InitQuery ==
    (\E e \in QueryEnvs : OrchInit(e, 1)) /\ SelFrozenInit /\ BusFrozenInit /\ NormFrozenInit

Init == InitCache \/ InitQuery

InitKeys == OrchInit(KeyEnv, MaxQueries) /\ SelFrozenInit /\ BusFrozenInit /\ NormFrozenInit

Next ==
    \/ \E p \in Procs : Begin(p)
    \/ \E p \in Procs : UploadReturn(p)
    \/ \E p \in Procs : GenerateCall(p)
    \/ \E p \in Procs : StreamChunk(p)
    \/ \E p \in Procs : StreamEnd(p)
    \/ \E p \in Procs : Finish(p)
    \/ \E s \in Sessions : clear_session(s)

Spec == Init /\ [][Next]_vars

\* the orchestrator serving three queries on one session, two at a time
InitOverlap ==
    OrchInit(OverlapEnv, MaxQueries + 1) /\ SelFrozenInit /\ BusFrozenInit /\ NormFrozenInit
SpecOverlap == InitOverlap /\ [][Next]_vars

\* the orchestrator resolving one query's selection
InitScope == OrchInit(ScopeEnv, 1) /\ SelFrozenInit /\ BusFrozenInit /\ NormFrozenInit
SpecScope == InitScope /\ [][Next]_vars

\* the orchestrator serving queries that carry user_api_key
SpecKeys == InitKeys /\ [][Next]_vars

----------------------------------------------------------------------------
(* Selector: FileSelectorAgent (deep strategy, "Anchor Cluster")           *)
(*                                                                         *)
(* A summary dict is identified by its doc_id (a number); the fields the   *)
(* selector adds to the dicts live in `fields`.  Scores are in tenths.     *)

MaxDocs == 3                      \* summaries stored for the course

Docs       == 1..MaxDocs
ForeignDoc == 0                   \* a selected doc_id that has no summary
NoDoc      == -1                  \* syllabus_doc_id = None

MAX_FILES            == 100       \* line 83
DefaultMaxFiles      == 15        \* line 54
MaxAnchorsGlobal     == 5         \* line 166
MaxAnchorsScoped     == 3         \* line 292
HeuristicAnchors     == 5         \* line 539
FallbackAnchors      == 3         \* line 612
FallbackKeywords     == 20        \* line 620
PromptKeywords       == 15        \* line 633
PromptTopics         == 10        \* line 634
PrintLimit           == 5         \* lines 209, 344
RELEVANCE_THRESHOLD  == 3         \* line 332: 0.3

Null   == -1                      \* JSON null given as a score
Absent == -2                      \* the dict has no '_score' key

\* summary.get('filename') contains one of the authority markers (525-529)
HasMarker(d) == d \in {2, 3} \/ d >= 5
\* summary.get('topics')
Topics(d) == IF d = 1 THEN <<"t1">> ELSE IF d = 2 THEN <<"t2", "t3">> ELSE <<>>

\* an element of a keyword / hint list that is not a string
NonStr == "#"

\* class SelectionStage
ANALYZING_QUERY     == "analyzing_query"
SCANNING_SUMMARIES  == "scanning_summaries"
IDENTIFYING_ANCHORS == "identifying_anchors"
EXTRACTING_CONTEXT  == "extracting_context"
SCORING_FILES       == "scoring_files"
COMPLETE            == "complete"

NoCount == -1
Event(stage, count) == [stage |-> stage, count |-> count]

\* f.get('_score', 0)
ScoreOf(fl, d) == IF fl[d].score = Absent THEN 0 ELSE fl[d].score

RECURSIVE InsertDesc(_, _, _)
\* x goes behind every element whose score is not smaller: equal scores keep
\* their order (list.sort is stable, also with reverse=True)
InsertDesc(x, t, fl) ==
    IF t = <<>> THEN <<x>>
    ELSE IF ScoreOf(fl, Head(t)) >= ScoreOf(fl, x)
         THEN <<Head(t)>> \o InsertDesc(x, Tail(t), fl)
         ELSE <<x>> \o t

RECURSIVE SortPrefix(_, _, _)
SortPrefix(s, n, fl) == IF n = 0 THEN <<>> ELSE InsertDesc(s[n], SortPrefix(s, n - 1, fl), fl)

\* line 688: file_summaries.sort(key=lambda x: x.get('_score', 0), reverse=True)
SortDesc(s, fl) == SortPrefix(s, Len(s), fl)

\* line 688 when a comparison raises (a null score meets another element):
\* the list is left either untouched or with the part behind the last null
\* element already sorted
SortRaises(s, fl) == Len(s) >= 2 /\ \E i \in 1..Len(s) : fl[s[i]].score = Null
SortFailureOutcomes(s, fl) ==
    LET r == CHOOSE i \in 1..Len(s) :
                 fl[s[i]].score = Null /\ \A j \in (i+1)..Len(s) : fl[s[j]].score # Null
    IN  { s, SubSeq(s, 1, r) \o SortDesc(SubSeq(s, r + 1, Len(s)), fl) }

\* ---- _analyze_query_intent, lines 355-426 ----
IntentResponses ==
    { "none", "unparsable", "object", "object_number_hints", "object_null_hints", "non_object" }

DefaultIntent ==
    [is_dict |-> TRUE, hints_sliceable |-> TRUE, context_hints |-> <<>>, parsed |-> FALSE]

analyze_query_intent(response) ==
    IF response \in {"none", "unparsable"} THEN DefaultIntent
    ELSE IF response = "object"
    THEN [is_dict |-> TRUE, hints_sliceable |-> TRUE, context_hints |-> <<"h1">>, parsed |-> TRUE]
    ELSE IF response = "object_number_hints"
    THEN [is_dict |-> TRUE, hints_sliceable |-> TRUE, context_hints |-> <<NonStr>>, parsed |-> TRUE]
    ELSE IF response = "object_null_hints"
    THEN [is_dict |-> TRUE, hints_sliceable |-> FALSE, context_hints |-> <<>>, parsed |-> TRUE]
    ELSE [is_dict |-> FALSE, hints_sliceable |-> FALSE, context_hints |-> <<>>, parsed |-> TRUE]

\* lines 148-151 / 263-265: query_intent.get(...) and .get('context_hints', [])[:5]
\* raise when the parsed JSON is not an object or the hints cannot be sliced
IntentPrintRaises(query_intent) == ~query_intent.is_dict \/ ~query_intent.hints_sliceable

\* ", ".join(items[:n]) raises on an element that is not a string
JoinRaises(items, n) == NonStr \in Range(Take(items, n))

\* ---- _identify_anchors_ai, lines 428-514 ----
\* picked: the doc_ids named by the parsed response ({} when there was no
\* response, it could not be parsed, or it was not a list of objects); a
\* response may name a doc_id that is not a candidate
AiMatched(query_intent, cands, picked) ==
    IF cands = <<>> THEN <<>>
    ELSE IF JoinRaises(query_intent.context_hints, PromptTopics) THEN <<>>
    ELSE SelectSeqBy(cands, picked)
identify_anchors_ai(query_intent, cands, max_anchors, picked) ==
    Take(AiMatched(query_intent, cands, picked), max_anchors)

\* ---- _identify_anchor_files, lines 516-539 ----
HeuristicMatched_NoMarker(cands) == cands
HeuristicMatched(cands) == SelectSeqBy(cands, {d \in Range(cands) : HasMarker(d)})
identify_anchor_files(cands) == Take(HeuristicMatched(cands), HeuristicAnchors)

\* lines 505, 535: '_anchor_score' is set on every summary that matched
MarkAnchors(fl, matched) ==
    [d \in DOMAIN fl |-> IF d \in Range(matched) THEN [fl[d] EXCEPT !.anchor = TRUE] ELSE fl[d]]

\* ---- _extract_anchor_keywords, lines 541-620 ----
KeywordResponses == { "none", "unparsable", "list", "list_with_number", "not_a_list" }

TopicsOf(anchors) == Flatten([i \in 1..Len(anchors) |-> Topics(anchors[i])])

extract_anchor_keywords(anchors, response) ==
    IF anchors = <<>> THEN <<>>
    ELSE IF response = "none" THEN <<>>
    ELSE IF response = "unparsable"
         THEN Take(TopicsOf(Take(anchors, FallbackAnchors)), FallbackKeywords)
    ELSE IF response = "list" THEN <<"k1", "k2">>
    ELSE IF response = "list_with_number" THEN <<"k1", NonStr>>
    ELSE <<>>

\* ---- _score_files_with_anchors, lines 622-694 ----
ScoreChoices   == {0, 3, 9, Null}     \* 0 also stands for a doc_id the response omits
ScoreResponses == { "none", "unparsable", "non_object", "object" }

\* lines 684-686: file_info['_score'] = scores.get(doc_id, 0.0)
AssignScores(fl, cands, scores) ==
    [d \in DOMAIN fl |-> IF d \in Range(cands) THEN [fl[d] EXCEPT !.score = scores[d]] ELSE fl[d]]

\* the lists and fields the call can leave behind, with how the call went
score_files_with_anchors(cands, fl, anchor_keywords, syllabus_topics, response, scores) ==
    IF JoinRaises(anchor_keywords, PromptKeywords) \/ JoinRaises(syllabus_topics, PromptTopics)
    THEN { [list |-> cands, fields |-> fl, scoring |-> "prompt_raised"] }
    ELSE IF response # "object"
    THEN { [list |-> cands, fields |-> fl, scoring |-> response] }
    ELSE LET scored == AssignScores(fl, cands, scores) IN
         IF SortRaises(cands, scored)
         THEN { [list |-> l, fields |-> scored, scoring |-> "sort_raised"] :
                    l \in SortFailureOutcomes(cands, scored) }
         ELSE { [list |-> SortDesc(cands, scored), fields |-> scored, scoring |-> "scored"] }

\* lines 209-210 / 344-345: f"{file.get('_score', 0):.2f}" raises on a null score
PrintRaises(files, fl) == \E i \in 1..Min(PrintLimit, Len(files)) : fl[files[i]].score = Null

\* line 333: [f for f in scored_files if f.get('_score', 0) >= RELEVANCE_THRESHOLD]
PruneRaises(files, fl) == \E i \in 1..Len(files) : fl[files[i]].score = Null
Prune_KeepAll(files, fl) == files
Prune(files, fl) ==
    SelectSeqBy(files, {d \in Range(files) : ScoreOf(fl, d) >= RELEVANCE_THRESHOLD})

\* line 273: [f for f in file_summaries if f.get('doc_id') in selected_set]
ScopedSummaries_Unfiltered(summaries, selected_docs) == summaries
ScopedSummaries(summaries, selected_docs) == SelectSeqBy(summaries, Range(selected_docs))

\* ---- the selector's frame ----
SelFrame(input, selected_docs, syllabus_doc_id, max_files) ==
    [ pc               |-> "start",
      mode             |-> "none",
      input            |-> input,             \* history: the list as it was handed over
      selected_docs    |-> selected_docs,
      syllabus_doc_id  |-> syllabus_doc_id,
      max_files        |-> max_files,
      summaries        |-> input,             \* the local name file_summaries
      aliased          |-> TRUE,              \* ... still is the caller's list object
      query_intent     |-> DefaultIntent,
      scoped_summaries |-> <<>>,
      anchors          |-> <<>>,
      picked           |-> {},                \* history: doc_ids the anchor call named
      anchor_source    |-> "none",            \* history: which finder gave the anchors
      anchor_keywords  |-> <<>>,
      keyword_call     |-> "not_called",      \* history: what the keyword call answered
      scoring          |-> "not_called",      \* history: how the scoring call went
      ai_calls         |-> 0,                 \* history: _call_ai_with_fallback invocations
      result           |-> <<>> ]

NoFields == [d \in Docs |-> [score |-> Absent, anchor |-> FALSE]]

\* the event loop runs the selection task only while the orchestrator is suspended
SelCanRun == poll \in {"off", "wait", "yield"}

\* root_agent.py 213-219: status_callback puts the event on the queue
status_callback(stage, count) ==
    /\ status_queue' = Append(status_queue, Event(stage, count))
    /\ emitted' = Append(emitted, Event(stage, count))

\* except Exception: ... return []   (lines 105-109, 214-218, 349-353)
ReturnEmpty == sel' = [sel EXCEPT !.pc = "returned", !.result = <<>>]

Candidates(f) == IF f.mode = "scoped" THEN f.scoped_summaries ELSE f.summaries

\* lines 400, 481, 595, 672: how often the helper of a stage reaches its
\* _call_ai_with_fallback (an early return or a prompt that raises comes first)
AiCalls(stage, f) ==
    IF stage = "intent" THEN 1
    ELSE IF stage = "anchors"
    THEN IF Candidates(f) = <<>> \/ JoinRaises(f.query_intent.context_hints, PromptTopics)
         THEN 0 ELSE 1
    ELSE IF stage = "keywords"
    THEN IF f.anchors = <<>> THEN 0 ELSE 1
    ELSE IF JoinRaises(f.anchor_keywords, PromptKeywords)
            \/ JoinRaises(f.query_intent.context_hints, PromptTopics)
         THEN 0 ELSE 1

\* lines 72-103, then 139-145 or 253-260
select_relevant_files ==
    /\ sel.pc = "start"
    /\ SelCanRun
    /\ IF sel.input = <<>>
       THEN /\ ReturnEmpty
            /\ UNCHANGED <<status_queue, emitted>>
       ELSE /\ sel' = [sel EXCEPT
                          !.pc = "intent",
                          !.summaries = Take(sel.input, MAX_FILES),
                          !.aliased = Len(sel.input) <= MAX_FILES,
                          !.mode = IF sel.selected_docs = <<>> THEN "global" ELSE "scoped"]
            /\ status_callback(ANALYZING_QUERY, NoCount)
    /\ UNCHANGED <<orchVars, normVars, file_summaries, fields, poll, relayed>>

\* lines 147-156 / 262-270
AnalyzeIntent ==
    /\ sel.pc = "intent"
    /\ SelCanRun
    /\ \E response \in IntentResponses :
         LET query_intent == analyze_query_intent(response) IN
         IF IntentPrintRaises(query_intent)
         THEN /\ sel' = [sel EXCEPT !.pc = "returned", !.result = <<>>,
                                    !.ai_calls = @ + AiCalls("intent", sel)]
              /\ UNCHANGED <<status_queue, emitted>>
         ELSE /\ sel' = [sel EXCEPT !.pc = "scan", !.query_intent = query_intent,
                                    !.ai_calls = @ + AiCalls("intent", sel)]
              /\ status_callback(SCANNING_SUMMARIES,
                                 IF sel.mode = "global" THEN Len(sel.summaries)
                                 ELSE Len(sel.selected_docs))
    /\ UNCHANGED <<orchVars, normVars, file_summaries, fields, poll, relayed>>

\* lines 158-160 / 272-286
ScanSummaries ==
    /\ sel.pc = "scan"
    /\ SelCanRun
    /\ sel' = [sel EXCEPT
                  !.pc = "anchors",
                  !.scoped_summaries =
                      IF sel.mode = "scoped"
                      THEN ScopedSummaries(sel.summaries, sel.selected_docs) ELSE <<>>]
    /\ status_callback(IDENTIFYING_ANCHORS, NoCount)
    /\ UNCHANGED <<orchVars, normVars, file_summaries, fields, poll, relayed>>

\* lines 162-183 / 288-309
IdentifyAnchors ==
    /\ sel.pc = "anchors"
    /\ SelCanRun
    /\ \E picked \in SUBSET (Range(Candidates(sel)) \cup {ForeignDoc}) :
         LET max_anchors == IF sel.mode = "global" THEN MaxAnchorsGlobal ELSE MaxAnchorsScoped
             ai      == identify_anchors_ai(sel.query_intent, Candidates(sel), max_anchors, picked)
             anchors == IF ai = <<>> THEN identify_anchor_files(Candidates(sel)) ELSE ai
             matched == AiMatched(sel.query_intent, Candidates(sel), picked)
                        \o (IF ai = <<>> THEN HeuristicMatched(Candidates(sel)) ELSE <<>>)
         IN  /\ sel' = [sel EXCEPT !.pc = "keywords", !.anchors = anchors,
                                   !.picked = picked,
                                   !.ai_calls = @ + AiCalls("anchors", sel),
                                   !.anchor_source = IF ai = <<>> THEN "heuristic" ELSE "ai"]
             /\ fields' = MarkAnchors(fields, matched)
             /\ status_callback(EXTRACTING_CONTEXT,
                                IF sel.mode = "global" THEN Len(anchors) ELSE NoCount)
    /\ UNCHANGED <<orchVars, normVars, file_summaries, poll, relayed>>

\* lines 185-192 / 311-322; anchors are not read again
ExtractKeywords ==
    /\ sel.pc = "keywords"
    /\ SelCanRun
    /\ \E response \in KeywordResponses :
         sel' = [sel EXCEPT
                    !.pc = "score",
                    !.anchors = <<>>,
                    !.picked = {},
                    !.anchor_source = "none",
                    !.keyword_call = IF sel.anchors = <<>> THEN "not_called" ELSE response,
                    !.ai_calls = @ + AiCalls("keywords", sel),
                    !.anchor_keywords =
                        IF sel.mode = "scoped" /\ sel.anchors = <<>>
                        THEN sel.query_intent.context_hints
                        ELSE extract_anchor_keywords(sel.anchors, response)]
    /\ status_callback(SCORING_FILES, NoCount)
    /\ UNCHANGED <<orchVars, normVars, file_summaries, fields, poll, relayed>>

\* lines 194-206 / 324-338; intent and keywords are not read again
ScoreFiles ==
    /\ sel.pc = "score"
    /\ SelCanRun
    /\ \E response \in ScoreResponses, scores \in [Range(Candidates(sel)) -> ScoreChoices] :
       \E o \in score_files_with_anchors(Candidates(sel), fields, sel.anchor_keywords,
                                         sel.query_intent.context_hints, response, scores) :
         LET f == [sel EXCEPT !.scoring = o.scoring,
                              !.ai_calls = @ + AiCalls("score", sel),
                              !.query_intent = DefaultIntent,
                              !.keyword_call = "not_called",
                              !.anchor_keywords = <<>>]
         IN
         /\ fields' = o.fields
         /\ IF sel.mode = "global"
            THEN LET selected == Take(o.list, sel.max_files) IN
                 /\ sel' = [f EXCEPT !.pc = "report", !.summaries = o.list, !.result = selected]
                 /\ file_summaries' = IF sel.aliased THEN o.list ELSE file_summaries
                 /\ status_callback(COMPLETE, Len(selected))
            ELSE /\ UNCHANGED file_summaries
                 /\ IF PruneRaises(o.list, o.fields)
                    THEN /\ sel' = [f EXCEPT !.pc = "returned", !.scoped_summaries = o.list,
                                             !.result = <<>>]
                         /\ UNCHANGED <<status_queue, emitted>>
                    ELSE LET pruned == Take(Prune(o.list, o.fields), sel.max_files) IN
                         /\ sel' = [f EXCEPT !.pc = "report", !.scoped_summaries = o.list,
                                             !.result = pruned]
                         /\ status_callback(COMPLETE, Len(pruned))
    /\ UNCHANGED <<orchVars, normVars, poll, relayed>>

\* lines 208-212 / 340-347
ReturnSelected ==
    /\ sel.pc = "report"
    /\ SelCanRun
    /\ IF PrintRaises(sel.result, fields)
       THEN ReturnEmpty
       ELSE sel' = [sel EXCEPT !.pc = "returned"]
    /\ UNCHANGED <<orchVars, normVars, file_summaries, fields, emitted, busVars>>

SelectorStep ==
    \/ select_relevant_files
    \/ AnalyzeIntent
    \/ ScanSummaries
    \/ IdentifyAnchors
    \/ ExtractKeywords
    \/ ScoreFiles
    \/ ReturnSelected

\* ---- the selector on its own: every call a caller can make ----
SummaryInputs  == { [i \in 1..n |-> i] : n \in 0..MaxDocs }
SelectedInputs == { <<>>, <<1>>, <<1, 2>>, <<2, ForeignDoc>> }
SyllabusInputs == { NoDoc, 3 }
MaxFilesInputs == { 1, 2, DefaultMaxFiles }

OrchFrozenInit == OrchInit(CacheEnv, 0)

InitSel ==
    /\ OrchFrozenInit
    /\ BusFrozenInit
    /\ NormFrozenInit
    /\ \E input \in SummaryInputs, selected_docs \in SelectedInputs,
          syllabus_doc_id \in SyllabusInputs, max_files \in MaxFilesInputs :
         /\ sel = SelFrame(input, selected_docs, syllabus_doc_id, max_files)
         /\ file_summaries = input
    /\ fields = NoFields
    /\ emitted = <<>>

NextSel == SelectorStep

SpecSel == InitSel /\ [][NextSel]_vars

----------------------------------------------------------------------------
(* Progress event bus: root_agent.py 210-258                               *)

\* asyncio.Queue.get / get_nowait: the oldest item leaves the queue
get_nowait_Newest(q) == [item |-> q[Len(q)], queue |-> SubSeq(q, 1, Len(q) - 1)]
get_nowait(q) == [item |-> Head(q), queue |-> Tail(q)]

\* lines 239-243 / 253-258: the item goes to the caller as a [STATUS] line
Relay(phase, item) == relayed' = Append(relayed, [phase |-> phase, event |-> item])

\* line 235: while not selection_task.done(); line 249 on a finished task
\* returns at once
PollCheck_KeepWaiting ==
    /\ poll = "check"
    /\ poll' = "wait"
    /\ UNCHANGED <<orchVars, normVars, selVars, status_queue, relayed>>
PollCheck_SkipDrain ==
    /\ poll = "check"
    /\ poll' = IF sel.pc = "returned" THEN "moved_on" ELSE "wait"
    /\ UNCHANGED <<orchVars, normVars, selVars, status_queue, relayed>>
PollCheck ==
    /\ poll = "check"
    /\ poll' = IF sel.pc = "returned" THEN "drain" ELSE "wait"
    /\ UNCHANGED <<orchVars, normVars, selVars, status_queue, relayed>>

\* lines 238-243: wait_for(status_queue.get(), ...) delivers an item, which is yielded
PollGet ==
    /\ poll = "wait"
    /\ status_queue # <<>>
    /\ LET g == get_nowait(status_queue) IN
         /\ status_queue' = g.queue
         /\ Relay("loop", g.item)
    /\ poll' = "yield"
    /\ UNCHANGED <<orchVars, normVars, selVars>>

\* lines 244-246: the wait times out; a cancelled get() leaves the queue as it is
PollTimeout ==
    /\ poll = "wait"
    /\ poll' = "check"
    /\ UNCHANGED <<orchVars, normVars, selVars, status_queue, relayed>>

\* the caller asks for the next item: the generator resumes behind line 243
PollResume ==
    /\ poll = "yield"
    /\ poll' = "check"
    /\ UNCHANGED <<orchVars, normVars, selVars, status_queue, relayed>>

\* lines 252-258
Drain ==
    /\ poll = "drain"
    /\ IF status_queue = <<>>
       THEN /\ poll' = "moved_on"
            /\ UNCHANGED <<status_queue, relayed>>
       ELSE LET g == get_nowait(status_queue) IN
            /\ status_queue' = g.queue
            /\ Relay("drain", g.item)
            /\ UNCHANGED poll
    /\ UNCHANGED <<orchVars, normVars, selVars>>

\* lines 260-280: the orchestrator's own status about the selection
SelectionStatus ==
    /\ poll = "moved_on"
    /\ poll' = IF sel.result = <<>> THEN "status_error" ELSE "status_complete"
    /\ UNCHANGED <<orchVars, normVars, selVars, status_queue, relayed>>

\* line 159: the selector is only started on a non-empty list of summaries
BusSummaryInputs  == { <<1>>, <<1, 2>> }
BusSelectedInputs == { <<>>, <<1>> }

\* lines 210-232: the queue and the selection task have just been created
InitBus ==
    /\ OrchFrozenInit
    /\ NormFrozenInit
    /\ \E input \in BusSummaryInputs, selected_docs \in BusSelectedInputs :
         /\ sel = SelFrame(input, selected_docs, NoDoc, DefaultMaxFiles)
         /\ file_summaries = input
    /\ fields = NoFields
    /\ emitted = <<>>
    /\ status_queue = <<>>
    /\ poll = "check"
    /\ relayed = <<>>

NextBus ==
    \/ SelectorStep
    \/ PollCheck
    \/ PollGet
    \/ PollTimeout
    \/ PollResume
    \/ Drain
    \/ SelectionStatus

SpecBus == InitBus /\ [][NextBus]_vars

----------------------------------------------------------------------------
(* Identifier normalisation on its own: strip_extension_for_matching       *)
(* applied to a stem, to its own result, and to the stem carrying two      *)
(* different final extensions.                                             *)

MaxIdLen == 4                     \* longest stem tried

IdChars == {"1", "_", "a", "."}
Extensions == { <<"p">>, <<"x">>, <<"p", "x">> }

RECURSIVE IdsUpTo(_)
IdsUpTo(n) ==
    IF n = 0 THEN {<<>>}
    ELSE LET shorter == IdsUpTo(n - 1) IN
         shorter \cup { Append(s, c) : s \in shorter, c \in IdChars }

\* "<stem>.<ext>"
WithExtension(stem, ext) == stem \o <<".">> \o ext

NormFrame(stem, ext1, ext2) ==
    [ pc |-> "stem", stem |-> stem, ext1 |-> ext1, ext2 |-> ext2,
      out |-> NoId, again |-> NoId, out1 |-> NoId, out2 |-> NoId ]

NormFrozen == UNCHANGED <<orchVars, selVars, busVars, call, req>>

\* strip_extension_for_matching(stem)
NormalizeStem ==
    /\ norm.pc = "stem"
    /\ norm' = [norm EXCEPT !.pc = "again", !.out = strip_extension_for_matching(norm.stem)]
    /\ NormFrozen

\* strip_extension_for_matching applied to its own result
NormalizeAgain ==
    /\ norm.pc = "again"
    /\ norm' = [norm EXCEPT !.pc = "first", !.again = strip_extension_for_matching(norm.out)]
    /\ NormFrozen

\* strip_extension_for_matching("<stem>.<ext1>")
NormalizeFirst ==
    /\ norm.pc = "first"
    /\ norm' = [norm EXCEPT
                   !.pc = "second",
                   !.out1 = strip_extension_for_matching(WithExtension(norm.stem, norm.ext1))]
    /\ NormFrozen

\* strip_extension_for_matching("<stem>.<ext2>")
NormalizeSecond ==
    /\ norm.pc = "second"
    /\ norm' = [norm EXCEPT
                   !.pc = "done",
                   !.out2 = strip_extension_for_matching(WithExtension(norm.stem, norm.ext2))]
    /\ NormFrozen

InitNorm ==
    /\ OrchFrozenInit
    /\ SelFrozenInit
    /\ BusFrozenInit
    /\ call = CallIdle
    /\ req = [pc |-> "off"]
    /\ \E stem \in IdsUpTo(MaxIdLen), ext1 \in Extensions, ext2 \in Extensions :
         norm = NormFrame(stem, ext1, ext2)

NextNorm ==
    \/ NormalizeStem
    \/ NormalizeAgain
    \/ NormalizeFirst
    \/ NormalizeSecond

SpecNorm == InitNorm /\ [][NextNorm]_vars

----------------------------------------------------------------------------
(* Selector, fast strategy: one external call that answers with indices    *)
(* into the list of candidate descriptions.  The strategy is not among the *)
(* source files at hand; it is modelled from section 4.3 of the            *)
(* specification ("Fast strategy (single-call)").                          *)

FastLimit == 50                   \* candidate descriptions sent with the call

\* what the single call can answer: nothing, text that is not JSON, JSON that
\* is not an array of integers, or an array of integers (each index named at
\* most once); -1 and MaxDocs are out of range for every list tried
FastIndexes == (0 - 1)..MaxDocs
FastResponses ==
    { [kind |-> k, indices |-> <<>>] : k \in {"none", "unparsable", "not_index_array"} }
    \cup { [kind |-> "array", indices |-> idx] :
             idx \in {<<>>} \cup { <<i>> : i \in FastIndexes }
                     \cup { p \in FastIndexes \X FastIndexes : p[1] # p[2] } }

\* indices mapped back to the records shown, out-of-range ones skipped
MapIndices_Clamped(shown, indices) ==
    [k \in 1..Len(indices) |->
        IF indices[k] >= 0 /\ indices[k] < Len(shown)
        THEN shown[indices[k] + 1] ELSE shown[Len(shown)]]
MapIndices(shown, indices) ==
    LET ok == SelectSeq(indices, LAMBDA i : i >= 0 /\ i < Len(shown))
    IN  [k \in 1..Len(ok) |-> shown[ok[k] + 1]]

fast_select(cands, max_results, response) ==
    IF response.kind = "array"
    THEN Take(MapIndices(Take(cands, FastLimit), response.indices), max_results)
    ELSE Take(cands, max_results)

FastFrame(input, max_files) ==
    [ pc |-> "start", mode |-> "fast", input |-> input, max_files |-> max_files,
      response |-> [kind |-> "pending", indices |-> <<>>], result |-> <<>> ]

FastFrozen == UNCHANGED <<orchVars, normVars, busVars, file_summaries, fields, emitted>>

\* the single external call is issued
FastCall ==
    /\ sel.pc = "start"
    /\ sel.mode = "fast"
    /\ sel' = [sel EXCEPT !.pc = "called"]
    /\ FastFrozen

\* the call has answered and the result is built
FastReturn ==
    /\ sel.pc = "called"
    /\ sel.mode = "fast"
    /\ \E response \in FastResponses :
         sel' = [sel EXCEPT !.pc = "returned", !.response = response,
                            !.result = fast_select(sel.input, sel.max_files, response)]
    /\ FastFrozen

FastSummaryInputs == { [i \in 1..n |-> i] : n \in 1..MaxDocs }

InitFast ==
    /\ OrchFrozenInit
    /\ BusFrozenInit
    /\ NormFrozenInit
    /\ \E input \in FastSummaryInputs, max_files \in MaxFilesInputs :
         /\ sel = FastFrame(input, max_files)
         /\ file_summaries = input
    /\ fields = NoFields
    /\ emitted = <<>>

NextFast ==
    \/ FastCall
    \/ FastReturn

SpecFast == InitFast /\ [][NextFast]_vars

----------------------------------------------------------------------------
(* External model call: FileSelectorAgent._call_ai_with_fallback           *)

model_id       == "gemini-2.0-flash-lite"     \* line 44
fallback_model == "gemini-2.0-flash-lite"     \* line 45
DefaultTemperature == 2                       \* line 700: 0.2, in tenths

\* the calls the selector makes: prompt and max_tokens (lines 400, 481, 595, 672)
CallSites ==
    { [prompt |-> "intent",   max_tokens |-> 500],
      [prompt |-> "anchors",  max_tokens |-> 1000],
      [prompt |-> "keywords", max_tokens |-> 500],
      [prompt |-> "scores",   max_tokens |-> 2000] }

\* texts are sequences of characters
RECURSIVE LStrip(_)
LStrip(t) == IF t # <<>> /\ Head(t) = " " THEN LStrip(Tail(t)) ELSE t
RECURSIVE RStrip(_)
RStrip(t) == IF t # <<>> /\ t[Len(t)] = " " THEN RStrip(SubSeq(t, 1, Len(t) - 1)) ELSE t
\* str.strip()
Strip(t) == RStrip(LStrip(t))

\* str.lower()
LowerChar(ch) ==
    IF ch = "Q" THEN "q" ELSE IF ch = "C" THEN "c"
    ELSE IF ch = "A" THEN "a" ELSE IF ch = "L" THEN "l" ELSE ch
Lower(t) == [i \in 1..Len(t) |-> LowerChar(t[i])]

\* sub in t
Contains(t, sub) ==
    \E i \in 0..(Len(t) - Len(sub)) : SubSeq(t, i + 1, i + Len(sub)) = sub

\* what generate_content can do: return no response object, return one whose
\* text is None, empty, blank or real text, or raise.  An error carries its
\* message and whether the service signalled quota or rate limiting with it
NoText == <<"<None>">>
ResponseTexts == { NoText, <<>>, <<" ">>, <<"o", "k">>, <<" ", "o", "k", " ">> }
Err_429      == [signal |-> TRUE,  message |-> <<"4", "2", "9">>]
Err_Quota    == [signal |-> TRUE,  message |-> <<"Q", "u", "o", "t", "a">>]
Err_Rate     == [signal |-> TRUE,  message |-> <<"r", "a", "t", "e">>]
Err_Generate == [signal |-> FALSE,
                 message |-> <<"4", "0", "4", " ", "g", "e", "n", "e", "r", "a", "t", "e",
                               "C", "o", "n", "t", "e", "n", "t">>]
Err_Timeout  == [signal |-> FALSE, message |-> <<"t", "i", "m", "e", "o", "u", "t">>]
ApiErrors == { Err_429, Err_Quota, Err_Rate, Err_Generate, Err_Timeout }
Outcomes ==
    { [kind |-> "no_response", text |-> NoText, error |-> Err_Timeout] }
    \cup { [kind |-> "response", text |-> t, error |-> Err_Timeout] : t \in ResponseTexts }
    \cup { [kind |-> "raise", text |-> NoText, error |-> e] : e \in ApiErrors }
Pending == [kind |-> "pending", text |-> NoText, error |-> Err_Timeout]

\* line 720: '429' in error_str or 'quota' in error_str or 'rate' in error_str
RetryOnError(error) ==
    LET error_str == Lower(error.message)
    IN  \/ Contains(error_str, <<"4", "2", "9">>)
        \/ Contains(error_str, <<"q", "u", "o", "t", "a">>)
        \/ Contains(error_str, <<"r", "a", "t", "e">>)

NoResult == [is_none |-> TRUE, text |-> <<>>]
TextResult(t) == [is_none |-> FALSE, text |-> Strip(t)]

\* "not response or not response.text"
NoResponse(o) == o.kind = "no_response" \/ o.text \in { NoText, <<>> }

GenerateRequest(model, f) ==
    [model |-> model, contents |-> f.prompt, temperature |-> f.temperature,
     max_output_tokens |-> f.max_tokens]

CallFrame(site) ==
    [ pc |-> "primary", prompt |-> site.prompt, max_tokens |-> site.max_tokens,
      temperature |-> DefaultTemperature,
      calls |-> <<>>,                  \* history: requests sent to the service
      primary |-> Pending,             \* history: what the first call did
      fallback |-> Pending,            \* history: what the retry did
      result |-> NoResult ]

CallFrozen == UNCHANGED <<orchVars, selVars, busVars, norm, req>>

\* lines 703-721 and 734
CallPrimary ==
    /\ call.pc = "primary"
    /\ \E o \in Outcomes :
         LET f == [call EXCEPT !.calls = Append(@, GenerateRequest(model_id, call)),
                               !.primary = o]
         IN  call' = IF o.kind = "raise"
                     THEN IF RetryOnError(o.error)
                          THEN [f EXCEPT !.pc = "fallback"]
                          ELSE [f EXCEPT !.pc = "returned", !.result = NoResult]
                     ELSE IF NoResponse(o)
                          THEN [f EXCEPT !.pc = "returned", !.result = NoResult]
                          ELSE [f EXCEPT !.pc = "returned", !.result = TextResult(o.text)]
    /\ CallFrozen

\* lines 722-733
CallFallback ==
    /\ call.pc = "fallback"
    /\ \E o \in Outcomes :
         call' = [call EXCEPT
                     !.pc = "returned",
                     !.calls = Append(@, GenerateRequest(fallback_model, call)),
                     !.fallback = o,
                     !.result = IF o.kind = "raise" \/ NoResponse(o)
                                THEN NoResult ELSE TextResult(o.text)]
    /\ CallFrozen

InitCall ==
    /\ OrchFrozenInit
    /\ SelFrozenInit
    /\ BusFrozenInit
    /\ norm = NormIdle
    /\ req = [pc |-> "off"]
    /\ \E site \in CallSites : call = CallFrame(site)

NextCall ==
    \/ CallPrimary
    \/ CallFallback

SpecCall == InitCall /\ [][NextCall]_vars

----------------------------------------------------------------------------
(* The anchor step on its own (lines 162-178 and 288-304), on candidate    *)
(* lists long enough for the limits on the number of anchors to apply.     *)

MaxAnchorDocs == 8                \* longest candidate list tried

RECURSIVE SubSequences(_)
\* the lists obtained from s by leaving elements out
SubSequences(s) ==
    IF s = <<>> THEN { <<>> }
    ELSE LET rest == SubSequences(Tail(s))
         IN  rest \cup { <<Head(s)>> \o t : t \in rest }

AnchorCandidates == SubSequences([i \in 1..MaxAnchorDocs |-> i])

\* the selector as it stands in front of the anchor step
AnchorStepFrame(cands, mode, query_intent) ==
    [ SelFrame(cands, IF mode = "scoped" THEN cands ELSE <<>>, NoDoc, DefaultMaxFiles)
        EXCEPT !.pc = "anchors", !.mode = mode, !.query_intent = query_intent,
               !.scoped_summaries = IF mode = "scoped" THEN cands ELSE <<>> ]

InitAnchors ==
    /\ OrchFrozenInit
    /\ BusFrozenInit
    /\ NormFrozenInit
    /\ \E cands \in AnchorCandidates \ { <<>> }, mode \in {"global", "scoped"},
          response \in {"none", "object_number_hints"} :
         /\ sel = AnchorStepFrame(cands, mode, analyze_query_intent(response))
         /\ file_summaries = cands
    /\ fields = [d \in 1..MaxAnchorDocs |-> [score |-> Absent, anchor |-> FALSE]]
    /\ emitted = <<>>

NextAnchors == IdentifyAnchors

SpecAnchors == InitAnchors /\ [][NextAnchors]_vars

----------------------------------------------------------------------------
(* The number of files asked for in the query text: root_agent.py 190-207  *)
(* on its own, applied to messages put together from a few fragments.      *)

MaxWords == 4                     \* fragments in one user_message

MaxFilesCap == 30                 \* line 205

Digits == {"0", "1", "2", "3", "4", "5", "6", "7", "8", "9"}

DigitValue(ch) == CHOOSE v \in 0..9 : <<"0", "1", "2", "3", "4", "5", "6", "7", "8", "9">>[v + 1] = ch

RECURSIVE ToInt(_)
\* int(match.group(1))
ToInt(ds) ==
    IF ds = <<>> THEN 0
    ELSE 10 * ToInt(SubSeq(ds, 1, Len(ds) - 1)) + DigitValue(ds[Len(ds)])

\* lines 195-200: each pattern is a literal, (\d+), a literal
number_patterns ==
    << [before |-> <<"a", "t", " ", "l", "e", "a", "s", "t", " ">>, after |-> <<>>],
       [before |-> <<"g", "i", "v", "e", " ", "m", "e", " ">>,      after |-> <<>>],
       [before |-> <<>>, after |-> <<" ", "f", "i", "l", "e", "s">>],
       [before |-> <<>>, after |-> <<" ", "s", "o", "u", "r", "c", "e", "s">>] >>

\* the pattern matches t with its first character at s and the last digit of
\* the group at e
MatchAt(pattern, t, s, e) ==
    LET b == s + Len(pattern.before) IN
    /\ b <= e /\ e + Len(pattern.after) <= Len(t)
    /\ SubSeq(t, s, b - 1) = pattern.before
    /\ \A i \in b..e : t[i] \in Digits
    /\ SubSeq(t, e + 1, e + Len(pattern.after)) = pattern.after

NoMatch == [found |-> FALSE, group |-> <<>>]

\* re.search(pattern, t): the leftmost start, and from it the longest group
\* that lets the rest of the pattern match
re_search(pattern, t) ==
    LET starts == {s \in 1..Len(t) : \E e \in s..Len(t) : MatchAt(pattern, t, s, e)} IN
    IF starts = {} THEN NoMatch
    ELSE LET s == CHOOSE x \in starts : \A y \in starts : x <= y
             e == CHOOSE x \in s..Len(t) :
                     /\ MatchAt(pattern, t, s, x)
                     /\ \A y \in s..Len(t) : MatchAt(pattern, t, s, y) => y <= x
         IN  [found |-> TRUE, group |-> SubSeq(t, s + Len(pattern.before), e)]

\* line 205
CapRequested_Uncapped(requested) == requested
CapRequested(requested) == Min(requested, MaxFilesCap)

RECURSIVE FirstPattern(_, _, _)
\* lines 201-207: the loop over the patterns from the k-th on
FirstPattern(patterns, k, t) ==
    IF k > Len(patterns) THEN MaxFilesDefault
    ELSE LET match == re_search(patterns[k], t) IN
         IF match.found THEN CapRequested(ToInt(match.group))
         ELSE FirstPattern(patterns, k + 1, t)

\* lines 191-207: max_files for a query text
max_files_for(user_message) == FirstPattern(number_patterns, 1, Lower(user_message))

Fragments ==
    { <<"A", "t", " ", "L", "e", "a", "s", "t", " ">>,
      <<"g", "i", "v", "e", " ", "m", "e", " ">>,
      <<" ", "f", "i", "l", "e", "s">>,
      <<" ", "s", "o", "u", "r", "c", "e", "s">>,
      <<"4">>, <<"3", "0">>, <<"x">> }

RECURSIVE WordsUpTo(_)
WordsUpTo(n) ==
    IF n = 0 THEN { <<>> }
    ELSE LET shorter == WordsUpTo(n - 1) IN
         shorter \cup { Append(w, f) : w \in shorter, f \in Fragments }

\* the query arrives at line 190
ReqFrame(words) ==
    [ pc |-> "query", words |-> words, user_message |-> Flatten(words),
      max_files |-> MaxFilesDefault ]

\* lines 190-207
InferMaxFiles ==
    /\ req.pc = "query"
    /\ req' = [req EXCEPT !.pc = "counted", !.max_files = max_files_for(req.user_message)]
    /\ UNCHANGED <<orchVars, selVars, busVars, norm, call>>

InitCount ==
    /\ OrchFrozenInit
    /\ SelFrozenInit
    /\ BusFrozenInit
    /\ norm = NormIdle
    /\ call = CallIdle
    /\ \E words \in WordsUpTo(MaxWords) : req = ReqFrame(words)

NextCount == InferMaxFiles

SpecCount == InitCount /\ [][NextCount]_vars

----------------------------------------------------------------------------
(* Termination: the query, the selection with its polling loop, and the    *)
(* external-call helper, each running to its end                           *)

\* one behaviour follows one of: a query through process_query_stream, a
\* selection relayed by the polling loop, one _call_ai_with_fallback
InitLive == InitScope \/ InitBus \/ InitCall

NextLive == Next \/ NextBus \/ NextCall

\* root_agent.py 235-258: the generator goes on whenever its consumer asks
PollStep ==
    PollCheck \/ PollGet \/ PollTimeout \/ PollResume \/ Drain \/ SelectionStatus

\* root_agent.py 420-680: every awaited call returns and the stream ends
QueryStep(p) ==
    UploadReturn(p) \/ GenerateCall(p) \/ StreamChunk(p) \/ StreamEnd(p) \/ Finish(p)

\* The selection task is ready whenever the generator is suspended in
\* wait_for (238) or at a yield (243), and the event loop runs a ready task
\* before the 0.1 s timer of wait_for fires: strong fairness for the selector.
\* Every other step is one a returning call or a resumed generator takes.
FairLive ==
    /\ SF_vars(SelectorStep)
    /\ WF_vars(PollStep)
    /\ \A p \in Procs : WF_vars(QueryStep(p))
    /\ WF_vars(NextCall)

SpecLive == InitLive /\ [][NextLive]_vars /\ FairLive

----------------------------------------------------------------------------
(* Properties of the orchestrator, checked under Spec *)

Active(p) == inv[p].pc # "idle"
IdsOf(materials) == {materials[i].id : i \in 1..Len(materials)}

\* the record of the session existed when the invocation looked it up and
\* its doc_ids are exactly the ids of the current materials
ExactRecord(f) ==
    /\ Truthy(f.session_id)
    /\ "doc_ids" \in DOMAIN f.session_cache
    /\ f.session_cache.doc_ids = IdsOf(f.materials_to_use)

\* C1: with a non-empty set of materials, the handles of the session are
\* reused, without a call of the uploader, if and only if session_id is set
\* and the stored record has doc_ids exactly equal to the ids of the current
\* materials; in every other case (no record, proper subset, proper
\* superset, overlap) the invocation enters a new upload round.
C1_ReuseIffExactMatch ==
    \A p \in Procs :
       LET f == inv[p] IN
       (Active(p) /\ f.materials_to_use # <<>>) =>
          /\ ExactRecord(f) =>
                /\ ~f.need_upload
                /\ f.upload_calls = 0
                /\ f.uploaded_files = f.session_cache.file_info
          /\ ~ExactRecord(f) =>
                /\ f.need_upload
                /\ f.file_paths # <<>> => f.upload_calls = 1
                /\ f.pc = "upload" => f.uploaded_files = <<>>

\* a reuse happened: the record matched exactly and its handles are attached
C1_Witness ==
    \E p \in Procs :
       /\ inv[p].pc = "generate"
       /\ ExactRecord(inv[p])
       /\ ~inv[p].need_upload
       /\ inv[p].uploaded_files # <<>>

\* the stored set is a proper superset of the current one and a new round runs
C1_WitnessSuperset ==
    \E p \in Procs :
       /\ inv[p].pc = "upload"
       /\ "doc_ids" \in DOMAIN inv[p].session_cache
       /\ IdsOf(inv[p].materials_to_use) \subseteq inv[p].session_cache.doc_ids
       /\ IdsOf(inv[p].materials_to_use) # inv[p].session_cache.doc_ids

\* C2: (a) when the previous query on the session resolved to the same set A,
\* uploaded it successfully, and neither a clear_session nor another query on
\* the session came in between, the next query resolving to A performs no
\* upload round (one round in total); (b) a query resolving to B # A after a
\* query that left the record at A enters a fresh upload round however much
\* A and B overlap, and (c) once that round succeeds the record of the
\* session holds B (until a clear or another query on the session).
C2_OneRoundThenFreshOnChange ==
    \A p \in Procs :
       LET f == inv[p] IN
       (Active(p) /\ f.materials_to_use # <<>>) =>
          /\ (f.prev.valid /\ f.prev.uploaded /\ f.prev.ids = IdsOf(f.materials_to_use))
                => (~f.need_upload /\ f.upload_calls = 0)
          /\ (f.prev.valid /\ f.prev.cached /\ f.prev.ids # IdsOf(f.materials_to_use))
                => f.need_upload
          /\ (f.need_upload /\ f.pc \in {"generate", "stream", "done"}
                /\ f.uploaded_files # <<>> /\ Truthy(f.session_id) /\ ~f.overlap)
                => /\ f.session_id \in DOMAIN session_uploads
                   /\ session_uploads[f.session_id].doc_ids = IdsOf(f.materials_to_use)

\* second of two consecutive queries on the same set: served from the cache
C2_Witness ==
    \E p \in Procs :
       /\ inv[p].pc = "generate"
       /\ inv[p].prev.valid /\ inv[p].prev.uploaded
       /\ inv[p].prev.ids = IdsOf(inv[p].materials_to_use)
       /\ inv[p].materials_to_use # <<>>
       /\ ~inv[p].need_upload

\* B after A with A and B overlapping: fresh round done, record holds B
C2_WitnessChange ==
    \E p \in Procs :
       /\ inv[p].pc = "generate"
       /\ inv[p].prev.valid /\ inv[p].prev.uploaded
       /\ inv[p].prev.ids # IdsOf(inv[p].materials_to_use)
       /\ inv[p].prev.ids \cap IdsOf(inv[p].materials_to_use) # {}
       /\ inv[p].need_upload /\ inv[p].wrote_cache /\ ~inv[p].overlap
       /\ session_uploads[inv[p].session_id].doc_ids = IdsOf(inv[p].materials_to_use)

ErrorItems == {"error_no_paths", "error_uploading", "no_files_uploaded", "error_exception"}

\* the invocation ended in an upload round without a single uploaded file
ZeroUploads(f) == f.pc = "done" /\ f.need_upload /\ f.uploaded_files = <<>>

\* C3: when an upload round yields zero successful uploads (result not
\* successful, empty list of files, no material with a storage path, or the
\* uploader raising), no step of the invocation changes session_uploads, the
\* invocation has ended with an error message and without answer text, and
\* the generation call was never issued.
C3_ZeroUploadsState ==
    \A p \in Procs :
       ZeroUploads(inv[p]) =>
          /\ ~inv[p].gen_called
          /\ inv[p].out # <<>>
          /\ Range(inv[p].out) \cap ErrorItems # {}
          /\ "chunk" \notin Range(inv[p].out)
          /\ ~inv[p].wrote_cache
C3_ZeroUploadsStep ==
    \A p \in Procs :
       (inv[p].pc \in {"idle", "upload"} /\ inv'[p].pc # inv[p].pc
          /\ (ZeroUploads(inv[p]))' )
       => session_uploads' = session_uploads
C3_ZeroUploadsLeaveCache ==
    []C3_ZeroUploadsState /\ [][C3_ZeroUploadsStep]_vars

\* an upload round returned success with an empty list of files while the
\* session already had a record, which is still there
C3_Witness ==
    \E p \in Procs :
       /\ ZeroUploads(inv[p])
       /\ "no_files_uploaded" \in Range(inv[p].out)
       /\ inv[p].session_id \in DOMAIN session_uploads
       /\ session_uploads[inv[p].session_id] = inv[p].session_cache

RelayedEvents == [i \in 1..Len(relayed) |-> relayed[i].event]

\* C4: what the caller is handed in the polling loop and then in the final
\* drain is exactly the sequence of status_callback calls: at every moment the
\* relayed events followed by the queued ones are the emitted ones (nothing
\* lost, duplicated or reordered), loop items come before drain items, and
\* when the orchestrator moves on every emitted event has been relayed.
C4_RelayedEqualsEmitted ==
    /\ RelayedEvents \o status_queue = emitted
    /\ \A i, j \in 1..Len(relayed) :
           (i < j /\ relayed[i].phase = "drain") => relayed[j].phase = "drain"
    /\ poll = "moved_on" => RelayedEvents = emitted

C4_Witness ==
    /\ poll = "moved_on"
    /\ Len(relayed) = 6
    /\ relayed[2].phase = "loop"
    /\ relayed[5].phase = "drain"

StagesOf(events) == [i \in 1..Len(events) |-> events[i].stage]
SixStages == << ANALYZING_QUERY, SCANNING_SUMMARIES, IDENTIFYING_ANCHORS,
                EXTRACTING_CONTEXT, SCORING_FILES, COMPLETE >>
Returned == sel.pc = "returned"
RanStrategy == sel.mode \in {"global", "scoped"}

\* C5: every selection the deep strategy ran has emitted exactly the six
\* stages, once each and in order, whatever the external calls returned.
C5_SixStagesInOrder ==
    (Returned /\ RanStrategy) => StagesOf(emitted) = SixStages

PositionIn(s, d) == CHOOSE i \in 1..Len(s) : s[i] = d

\* C6: the returned list is ordered by non-increasing score (no score counts
\* as 0.0) and documents of equal score keep their input order.
C6_SortedByScore ==
    Returned =>
        \A i, j \in 1..Len(sel.result) :
            i < j =>
                /\ ScoreOf(fields, sel.result[i]) >= ScoreOf(fields, sel.result[j])
                /\ ScoreOf(fields, sel.result[i]) = ScoreOf(fields, sel.result[j])
                       => PositionIn(sel.input, sel.result[i]) < PositionIn(sel.input, sel.result[j])

\* C7: in Scoped Refinement every returned document is one the user selected
\* or is the syllabus.
C7_ScopedWithinSelection ==
    (Returned /\ sel.mode = "scoped") =>
        \A i \in 1..Len(sel.result) :
            \/ sel.result[i] \in Range(sel.selected_docs)
            \/ sel.result[i] = sel.syllabus_doc_id

C7_Witness ==
    /\ Returned
    /\ sel.mode = "scoped"
    /\ sel.result # <<>>
    /\ \E d \in Range(sel.input) : d \notin Range(sel.selected_docs)
    /\ ForeignDoc \in Range(sel.selected_docs)

\* C8: in Scoped Refinement every returned document scores at least 0.3, and
\* the result is the first max_files documents, in score order, among the
\* selected ones that score at least 0.3.
C8_ThresholdThenTruncate ==
    (Returned /\ sel.mode = "scoped") =>
        /\ \A i \in 1..Len(sel.result) : ScoreOf(fields, sel.result[i]) >= RELEVANCE_THRESHOLD
        /\ sel.result =
             Take(Prune(SortDesc(ScopedSummaries(sel.input, sel.selected_docs), fields), fields),
                  sel.max_files)

ScoringFailed == sel.scoring \in {"none", "unparsable", "non_object", "prompt_raised"}

\* C9: when the scoring call fails entirely, in either mode, every candidate
\* counts as 0.0, the candidates keep their input order, and a selection that
\* was given candidates does not come back empty.
C9_ScoringFailureKeepsCandidates ==
    (Returned /\ RanStrategy /\ ScoringFailed /\ Candidates(sel) # <<>>) =>
        /\ \A d \in Range(Candidates(sel)) : ScoreOf(fields, d) = 0
        /\ sel.result # <<>>
        /\ IsPrefix(sel.result, SelectSeqBy(sel.input, Range(Candidates(sel))))

\* C10: called with no summaries the selector returns the empty list and has
\* still emitted a complete event with count 0.
C10_EmptySummariesEmitComplete ==
    (Returned /\ sel.input = <<>>) =>
        /\ sel.result = <<>>
        /\ \E i \in 1..Len(emitted) : emitted[i] = Event(COMPLETE, 0)

\* C11: select_relevant_files comes back empty only when it was given no
\* candidates: with a non-empty list of summaries and max_files >= 1 the
\* result is non-empty, whatever the external calls returned.
C11_EmptyOnlyWithoutCandidates ==
    (Returned /\ sel.input # <<>> /\ sel.max_files >= 1) => sel.result # <<>>

----------------------------------------------------------------------------
(* Properties of identifier normalisation, checked under SpecNorm *)

\* C12: strip_extension_for_matching is idempotent: applied to its own
\* result it returns that result, also when the name part has several dots.
C12_NormalizeIdempotent ==
    norm.pc \in {"first", "second", "done"} => norm.again = norm.out

HasSeparator(id) == "_" \in Range(id)
NamePart(id) == SubSeq(id, FirstIndex(id, "_") + 1, Len(id))

\* C13: strip_extension_for_matching never fails; two identifiers
\* <prefix>_<name>.<ext1> and <prefix>_<name>.<ext2> both normalise to
\* <prefix>_<name>; an identifier without '_', or without '.' behind its first
\* '_', comes back unchanged.
C13_ExtensionInsensitive ==
    /\ (norm.pc = "done" /\ HasSeparator(norm.stem)) =>
           /\ norm.out1 = norm.stem
           /\ norm.out2 = norm.stem
    /\ (/\ norm.pc \in {"again", "first", "second", "done"}
        /\ (~HasSeparator(norm.stem) \/ "." \notin Range(NamePart(norm.stem))))
           => norm.out = norm.stem
    /\ (norm.pc = "done" /\ ~HasSeparator(norm.stem)) =>
           /\ norm.out1 = WithExtension(norm.stem, norm.ext1)
           /\ norm.out2 = WithExtension(norm.stem, norm.ext2)

C13_Witness ==
    /\ norm.pc = "done"
    /\ HasSeparator(norm.stem)
    /\ "." \in Range(NamePart(norm.stem))
    /\ norm.ext1 # norm.ext2
    /\ norm.out1 = norm.out2
    /\ norm.out1 = norm.stem

C13_WitnessUnchanged ==
    /\ norm.pc = "done"
    /\ "." \in Range(norm.stem)
    /\ ~HasSeparator(norm.stem)
    /\ norm.out = norm.stem

----------------------------------------------------------------------------
(* Properties of scope resolution and of the invocation's output, checked  *)
(* under Spec                                                              *)

Manual(f) == f.pc # "idle" /\ f.branch = "manual"

\* the catalog entries whose normalised id is the normalised id of a selected one
NormalisedMatches(catalog, selected_docs) ==
    { m \in Range(catalog) :
        \E i \in 1..Len(selected_docs) :
            strip_extension_for_matching(m.id) = strip_extension_for_matching(selected_docs[i]) }

\* C14: in the manual-selection branch the materials resolved from the
\* selection are exactly the catalog entries whose normalised id equals the
\* normalised id of a selected identifier, as catalog entries (own id); the
\* only other material is the syllabus appended afterwards; a selected id
\* without a match adds nothing, and the query does not end with the
\* missing-documents message while a material remains.
C14_ManualResolution ==
    \A p \in Procs :
        Manual(inv[p]) =>
            LET f == inv[p] IN
            /\ Range(f.matched) = NormalisedMatches(env.catalog, f.selected_docs)
            /\ \/ f.materials_to_use = f.matched
               \/ /\ Len(f.materials_to_use) = Len(f.matched) + 1
                  /\ SubSeq(f.materials_to_use, 1, Len(f.matched)) = f.matched
                  /\ f.materials_to_use[Len(f.materials_to_use)].id = f.syllabus_id
            /\ f.materials_to_use # <<>> => "no_documents" \notin Range(f.out)

C14_Witness ==
    \E p \in Procs :
        /\ Manual(inv[p])
        /\ inv[p].selected_docs = <<Id_a_x, Id_z>>
        /\ inv[p].materials_to_use = <<M_a>>
        /\ inv[p].pc = "upload"

SyllabusInCatalog(f) ==
    TruthyId(f.syllabus_id) /\ \E m \in Range(env.catalog) : m.id = f.syllabus_id

\* C15: when syllabus_id is known and names a catalog entry and the documents
\* are resolved by manual or by AI-assisted selection, the materials handed
\* on to the upload step contain the syllabus entry (and its storage path is
\* among the paths uploaded), whether or not the selection or the Selector's
\* result had it.
C15_SyllabusAlwaysIncluded ==
    \A p \in Procs :
        LET f == inv[p] IN
        (f.pc # "idle" /\ f.branch \in {"manual", "smart"} /\ SyllabusInCatalog(f)) =>
            /\ \E m \in Range(f.materials_to_use) : m.id = f.syllabus_id
            /\ f.pc = "upload" =>
                   \A m \in Range(env.catalog) :
                       (m.id = f.syllabus_id /\ m.path # "") => m.path \in Range(f.file_paths)

C15_Witness ==
    \E p \in Procs :
        /\ inv[p].branch = "manual"
        /\ inv[p].selected_docs = <<Id_a_x>>
        /\ inv[p].syllabus_id = Id_s
        /\ inv[p].materials_to_use = <<M_a, M_s>>
        /\ inv[p].pc = "upload"

C15_WitnessSmart ==
    \E p \in Procs :
        /\ inv[p].branch = "smart"
        /\ inv[p].syllabus_id = Id_s
        /\ inv[p].materials_to_use = <<M_a, M_s>>
        /\ "status_complete" \in Range(inv[p].out)
        /\ inv[p].pc = "upload"

\* C16: in the AI-assisted branch with a known syllabus that is in the
\* catalog, the materials used contain the syllabus and are at most max_files:
\* the syllabus is included inside the limit, not on top of it.
C16_SyllabusInsideLimit ==
    \A p \in Procs :
        LET f == inv[p] IN
        (/\ f.pc # "idle"
         /\ f.branch = "smart"
         /\ "status_complete" \in Range(f.out)
         /\ SyllabusInCatalog(f)) =>
            /\ \E m \in Range(f.materials_to_use) : m.id = f.syllabus_id
            /\ Cardinality(IdsOf(f.materials_to_use)) <= f.max_files

\* C17: a caller that gives neither a manual selection nor an AI-selection
\* request gets the generation call with no attachments and never a failure
\* message about missing documents, whatever the catalog holds (also when it
\* is empty).
C17_NoDocumentMode ==
    \A p \in Procs :
        LET f == inv[p] IN
        (f.pc # "idle" /\ ~f.use_smart_selection /\ f.selected_docs = <<>>) =>
            /\ "no_materials" \notin Range(f.out)
            /\ "no_documents" \notin Range(f.out)
            /\ f.uploaded_files = <<>>
            /\ f.pc = "done" => f.gen_called

AnswerContent    == {"chunk", "web_sources"}
TerminalMessages == {"no_materials", "no_documents", "error_no_paths", "error_uploading",
                     "no_files_uploaded", "error_exception"}

\* C18: every invocation that has ended has yielded at least one item that
\* is answer content or an explicit terminal message; none ends with progress
\* events only or with nothing.
C18_NeverSilent ==
    \A p \in Procs :
        inv[p].pc = "done" =>
            \E i \in 1..Len(inv[p].out) : inv[p].out[i] \in AnswerContent \cup TerminalMessages

RoundSettled(f) == f.pc # "idle" /\ f.upload_result.state # "none"
SomeUploaded(f) ==
    f.upload_result.state = "returned" /\ f.upload_result.success /\ f.upload_result.files > 0

\* C19: after an upload round over a non-empty set of materials, if at least
\* one document was uploaded the query goes on to generation and the caller
\* has received the upload status, which lists the failed items when there
\* are any; if none was uploaded the invocation has ended there with a
\* terminal message and without a generation call.
C19_PartialUploadContinues ==
    \A p \in Procs :
        LET f == inv[p] IN
        RoundSettled(f) =>
            IF SomeUploaded(f)
            THEN /\ f.pc \in {"generate", "stream", "done"}
                 /\ f.pc = "done" => f.gen_called
                 /\ \E i \in 1..Len(f.out) :
                        f.out[i] = IF f.upload_result.failed > 0
                                   THEN "loaded_with_failures" ELSE "loaded"
                 /\ Range(f.out) \cap {"error_uploading", "no_files_uploaded"} = {}
            ELSE /\ f.pc = "done"
                 /\ ~f.gen_called
                 /\ f.out # <<>>
                 /\ f.out[Len(f.out)] \in {"error_uploading", "tip", "error_exception"}
                 /\ Range(f.out) \cap {"loaded", "loaded_with_failures"} = {}

C19_Witness ==
    \E p \in Procs :
        /\ SomeUploaded(inv[p])
        /\ inv[p].upload_result.failed > 0
        /\ inv[p].pc = "done"
        /\ inv[p].gen_called

C19_WitnessNone ==
    \E p \in Procs :
        /\ RoundSettled(inv[p])
        /\ inv[p].upload_result.success
        /\ inv[p].upload_result.files = 0
        /\ "failed_list" \in Range(inv[p].out)

\* C20: stop_check_callback is consulted for each chunk before the chunk is
\* relayed; from the chunk at which it answers true nothing more is yielded
\* (no answer text, no error message) and the invocation ends normally.
C20_StoppedState ==
    \A p \in Procs :
        inv[p].stopped =>
            /\ inv[p].pc = "done"
            /\ "error_exception" \notin Range(inv[p].out)
C20_StopStep ==
    \A p \in Procs :
        /\ inv'[p].stopped => inv'[p].out = inv[p].out
        /\ (env.stop_check /\ inv[p].pc = "stream" /\ inv'[p].out # inv[p].out
               /\ inv'[p].out[Len(inv'[p].out)] \in AnswerContent)
              => (inv'[p].consulted = inv[p].consulted + 1 /\ ~inv'[p].stopped)
C20_StopEndsStream == []C20_StoppedState /\ [][C20_StopStep]_vars

C20_Witness ==
    \E p \in Procs :
        /\ inv[p].stopped
        /\ inv[p].consulted = 1
        /\ inv[p].chunks_left > 0
        /\ inv[p].pc = "done"

----------------------------------------------------------------------------
(* Properties of cancellation and of clear_session, checked under Spec *)

\* C21: the stop predicate is consulted in the streaming loop only.  An
\* invocation that was stopped, even at its first chunk, has resolved its
\* materials (the AI-assisted branch has yielded the Selector's outcome), has
\* run its upload round and written the session record where one was due, and
\* has issued the generation call; the step that consults the predicate
\* starts in the streaming loop and leaves the session cache alone.
C21_StoppedState ==
    \A p \in Procs :
        LET f == inv[p] IN
        /\ f.pc \in {"idle", "upload", "generate"} => f.consulted = 0
        /\ f.stopped =>
              /\ f.gen_called
              /\ (f.branch = "smart" /\ env.summaries # <<>>) =>
                     \E i \in 1..Len(f.out) : f.out[i] \in {"status_complete", "status_error"}
              /\ f.need_upload =>
                     /\ f.upload_calls = 1
                     /\ SomeUploaded(f)
                     /\ f.uploaded_files # <<>>
                     /\ f.wrote_cache = Truthy(f.session_id)
                     /\ \E i \in 1..Len(f.out) : f.out[i] \in {"loaded", "loaded_with_failures"}
              /\ (f.wrote_cache /\ ~f.overlap) =>
                     /\ f.session_id \in DOMAIN session_uploads
                     /\ session_uploads[f.session_id] =
                            CacheRecord(f.selected_doc_ids, f.uploaded_files)
C21_ConsultStep ==
    \A p \in Procs :
        inv'[p].consulted > inv[p].consulted =>
            /\ inv[p].pc = "stream"
            /\ inv[p].gen_called /\ inv'[p].gen_called
            /\ session_uploads' = session_uploads
            /\ inv'[p].upload_calls = inv[p].upload_calls
C21_StopCutsStreamingOnly == []C21_StoppedState /\ [][C21_ConsultStep]_vars

\* stopped at the first chunk of an AI-assisted query that uploaded its
\* materials and cached them
C21_Witness ==
    \E p \in Procs :
        /\ inv[p].stopped
        /\ inv[p].consulted = 1
        /\ inv[p].branch = "smart"
        /\ "status_complete" \in Range(inv[p].out)
        /\ inv[p].need_upload
        /\ inv[p].wrote_cache
        /\ AnswerContent \cap Range(inv[p].out) = {}

\* C22: a step of clear_session(s) leaves session_uploads without a record
\* of s and with every other session's record as it was; when s had no record
\* the dictionary is unchanged.  The first query on s after its record was
\* cleared (no query on s being in flight at the clear) that resolves to a
\* non-empty set of materials finds no record and enters an upload round,
\* also when the set is the one the cleared record held.
C22_ClearStep ==
    \A s \in Sessions :
        clear_session(s) =>
            /\ s \notin DOMAIN session_uploads'
            /\ DOMAIN session_uploads' = (DOMAIN session_uploads) \ {s}
            /\ \A t \in DOMAIN session_uploads' : session_uploads'[t] = session_uploads[t]
            /\ s \notin DOMAIN session_uploads => session_uploads' = session_uploads
C22_AfterClear ==
    \A p \in Procs :
        LET f == inv[p] IN
        (f.pc # "idle" /\ f.prev.cleared /\ f.materials_to_use # <<>>) =>
            /\ f.session_cache = EmptyDict
            /\ f.need_upload
            /\ f.file_paths # <<>> => f.upload_calls = 1
            /\ f.pc \in {"upload", "generate"} => f.upload_calls = 1
C22_ClearRemovesRecord == []C22_AfterClear /\ [][C22_ClearStep]_vars

\* the query after the clear resolves to the very set the cleared record held
\* and is uploading it again, while the other session still has its record
C22_Witness ==
    \E p \in Procs :
        /\ inv[p].pc = "upload"
        /\ inv[p].prev.cleared
        /\ inv[p].prev.cleared_ids = IdsOf(inv[p].materials_to_use)
        /\ inv[p].session_id = "s1"
        /\ "s1" \notin DOMAIN session_uploads

\* a session was cleared while another session keeps its record
C22_WitnessOther ==
    /\ last["s1"].cleared
    /\ "s2" \in DOMAIN session_uploads
    /\ "s1" \notin DOMAIN session_uploads

----------------------------------------------------------------------------
(* Further properties of the selector, checked under SpecSel *)

\* C23: a selection leaves its inputs unchanged: when select_relevant_files
\* has returned, the caller's list of summaries is in the order it was handed
\* over and no summary record has gained or changed a field.
C23_InputsUnchanged ==
    Returned =>
        /\ file_summaries = sel.input
        /\ fields = NoFields

----------------------------------------------------------------------------
(* Properties of the fast strategy, checked under SpecFast *)

InRange(i) == i >= 0 /\ i < Len(sel.input)

\* C24: the fast strategy answers a call of the same interface with one
\* external call.  When the response is not an array of indices (no response,
\* not JSON, JSON of another shape) the result is the first max_files
\* candidates in catalog order; when it is, every returned record is the
\* candidate at an index the response names, in the response's order, an
\* out-of-range index contributes nothing, and at most max_files come back.
C24_FastFallback ==
    (sel.pc = "returned" /\ sel.mode = "fast") =>
        IF sel.response.kind # "array"
        THEN /\ Len(sel.result) = Min(sel.max_files, Len(sel.input))
             /\ \A k \in 1..Len(sel.result) : sel.result[k] = sel.input[k]
        ELSE LET idx  == sel.response.indices
                 good == {j \in 1..Len(idx) : InRange(idx[j])}
             IN  /\ Len(sel.result) = Min(sel.max_files, Cardinality(good))
                 /\ \A k \in 1..Len(sel.result) :
                        \E j \in good :
                            /\ sel.result[k] = sel.input[idx[j] + 1]
                            /\ Cardinality({i \in good : i <= j}) = k

\* an unparsable response on three candidates with max_files = 2
C24_Witness ==
    /\ sel.pc = "returned" /\ sel.mode = "fast"
    /\ sel.response.kind = "unparsable"
    /\ sel.input = <<1, 2, 3>>
    /\ sel.max_files = 2
    /\ sel.result = <<1, 2>>

\* an index array naming one index in range and one out of range
C24_WitnessOutOfRange ==
    /\ sel.pc = "returned" /\ sel.mode = "fast"
    /\ sel.response = [kind |-> "array", indices |-> <<2, 0 - 1>>]
    /\ sel.input = <<1, 2, 3>>
    /\ sel.result = <<3>>

----------------------------------------------------------------------------
(* Further properties of the progress event bus, checked under SpecBus *)

MovedOn == poll \in {"moved_on", "status_error", "status_complete"}

\* C25: when the AI-assisted branch leaves the final drain, the selection
\* task has returned, the status queue is empty and every event the Selector
\* emitted has been relayed; nothing is emitted or relayed from the queue
\* afterwards, so the orchestrator's own selection status (and all it yields
\* later) comes behind every Selector event.
C25_MovedOnState ==
    MovedOn =>
        /\ sel.pc = "returned"
        /\ status_queue = <<>>
        /\ Len(relayed) = Len(emitted)
        /\ \A i \in 1..Len(emitted) : relayed[i].event = emitted[i]
C25_MovedOnStep ==
    MovedOn => (MovedOn' /\ emitted' = emitted /\ relayed' = relayed /\ status_queue' = <<>>)
C25_EventsBeforeOwnStatus == []C25_MovedOnState /\ [][C25_MovedOnStep]_vars

\* the orchestrator has yielded its own status after relaying six events,
\* the last of them taken from the queue by the final drain
C25_Witness ==
    /\ poll = "status_complete"
    /\ Len(emitted) = 6
    /\ relayed[6].phase = "drain"
    /\ relayed[1].phase = "loop"

----------------------------------------------------------------------------
(* Error handling in the selector, checked under SpecSel *)

\* C26: whatever the intent-classification call returns, the selection
\* goes on: the step that receives the answer leads to the scanning stage and
\* the intent in use is the parsed one or the default intent; the selection
\* is never ended by that answer.
C26_IntentStep ==
    sel.pc = "intent" =>
        /\ sel'.pc = "scan"
        /\ sel'.query_intent.parsed \/ sel'.query_intent = DefaultIntent
        /\ Len(emitted') = Len(emitted) + 1
C26_IntentNeverFailsSelection == [][C26_IntentStep]_vars

----------------------------------------------------------------------------
(* Further properties of scope resolution, checked under Spec *)

\* C27: in the AI-assisted branch the doc_ids the Selector returned are
\* resolved through the normalised identifier, like a manual selection:
\* every catalog entry whose normalised id is the normalised id of a returned
\* doc_id is among the materials used.
C27_SmartResolvesNormalised ==
    \A p \in Procs :
        LET f == inv[p] IN
        (f.pc # "idle" /\ f.branch = "smart" /\ f.selected_files # <<>>) =>
            \A m \in NormalisedMatches(env.catalog, f.selected_files) :
                m \in Range(f.materials_to_use)

----------------------------------------------------------------------------
(* Properties of the external model call, checked under SpecCall *)

\* C28: _call_ai_with_fallback always returns; it sends one request to the
\* primary model and a second one, to the fallback model with the same
\* prompt, temperature and output limit, exactly when the first call raised
\* an error with which the service signalled quota or rate limiting; an error
\* without that signal, an empty primary response and a failed or empty
\* retry all give no response.
C28_OneRetryOnRateLimitOnly ==
    call.pc = "returned" =>
        /\ Len(call.calls) \in {1, 2}
        /\ call.calls[1] = GenerateRequest(model_id, call)
        /\ Len(call.calls) = 2 <=> (call.primary.kind = "raise" /\ call.primary.error.signal)
        /\ Len(call.calls) = 2 => call.calls[2] = GenerateRequest(fallback_model, call)
        /\ (call.primary.kind = "raise" /\ ~call.primary.error.signal) => call.result.is_none
        /\ (call.primary.kind # "raise" /\ NoResponse(call.primary)) => call.result.is_none
        /\ (call.fallback.kind = "raise" \/ (call.fallback.kind # "pending" /\ NoResponse(call.fallback)))
              => call.result.is_none

----------------------------------------------------------------------------
(* Fallbacks of the selector's helper calls, checked under SpecSel *)

\* C29: when the keyword-extraction call fails for a non-empty list of
\* anchors (no response, or a response that cannot be parsed), the keywords
\* handed to the scoring step are the anchors' own topics, joined in anchor
\* order and cut to 20.
C29_KeywordStep ==
    (sel.pc = "keywords" /\ sel.anchors # <<>>
        /\ sel'.keyword_call \in {"none", "unparsable"}) =>
            sel'.anchor_keywords = Take(TopicsOf(sel.anchors), FallbackKeywords)
C29_KeywordFallback == [][C29_KeywordStep]_vars

----------------------------------------------------------------------------
(* Properties of the anchor step, checked under SpecAnchors *)

AnchorsFound == sel.pc = "keywords"

\* the anchor call gave nothing usable: its prompt could not be built, or
\* it named no candidate (no response, unparsable, only foreign ids)
AiYieldedNone ==
    \/ JoinRaises(sel.query_intent.context_hints, PromptTopics)
    \/ sel.picked \cap Range(Candidates(sel)) = {}

\* C30: the keyword-heuristic finder supplies the anchors exactly when the
\* AI anchor step yields none, and then the anchors are the first at most 5
\* candidates, in candidate order, whose filename carries an authority
\* marker.
C30_HeuristicFallback ==
    AnchorsFound =>
        LET cands  == Candidates(sel)
            marked == {i \in 1..Len(cands) : HasMarker(cands[i])}
        IN  /\ sel.anchor_source = "heuristic" <=> AiYieldedNone
            /\ sel.anchor_source = "heuristic" =>
                  /\ Len(sel.anchors) = Min(5, Cardinality(marked))
                  /\ \A k \in 1..Len(sel.anchors) :
                        \E i \in marked :
                            /\ sel.anchors[k] = cands[i]
                            /\ Cardinality({j \in marked : j <= i}) = k
            /\ sel.anchor_source = "ai" =>
                  \A k \in 1..Len(sel.anchors) : sel.anchors[k] \in sel.picked

\* the anchor call named only a foreign id; more than five candidates carry
\* a marker and the first five of them are the anchors
C30_Witness ==
    /\ AnchorsFound
    /\ sel.picked = {ForeignDoc}
    /\ sel.anchor_source = "heuristic"
    /\ Cardinality({d \in Range(Candidates(sel)) : HasMarker(d)}) = 6
    /\ sel.anchors = <<2, 3, 5, 6, 7>>

\* C31: the anchors handed to keyword extraction are candidates, and there
\* are at most 5 of them in Global Discovery and at most 3 in Scoped
\* Refinement, whichever finder (AI anchor step or heuristic) supplied them.
C31_AnchorsWithinLimit ==
    AnchorsFound =>
        /\ Range(sel.anchors) \subseteq Range(Candidates(sel))
        /\ Len(sel.anchors) <= (IF sel.mode = "global" THEN MaxAnchorsGlobal
                                ELSE MaxAnchorsScoped)

----------------------------------------------------------------------------
(* Properties of the inferred number of files, checked under SpecCount *)

Counted == req.pc = "counted"

\* the k-th pattern occurs somewhere in the lower-cased query text
Occurs(k, t) == \E s, e \in 1..Len(t) : MatchAt(number_patterns[k], t, s, e)

\* C32: max_files is 15 when the query text matches none of the count
\* patterns; otherwise it is min(n, 30), n being the number captured by the
\* first pattern, in the order of the list, that matches (at its leftmost
\* occurrence, with all the digits standing there); it never exceeds 30.
C32_MaxFilesFromQuery ==
    Counted =>
        LET t == Lower(req.user_message) IN
        /\ req.max_files <= 30
        /\ (\A k \in 1..4 : ~Occurs(k, t)) => req.max_files = 15
        /\ \A k \in 1..4 :
              (Occurs(k, t) /\ \A j \in 1..(k - 1) : ~Occurs(j, t)) =>
                 \E s, e \in 1..Len(t) :
                    /\ MatchAt(number_patterns[k], t, s, e)
                    /\ \A s2, e2 \in 1..Len(t) :
                          MatchAt(number_patterns[k], t, s2, e2)
                             => (s < s2 \/ (s = s2 /\ e2 <= e))
                    /\ LET n == ToInt(SubSeq(t, s + Len(number_patterns[k].before), e))
                       IN  req.max_files = IF n <= 30 THEN n ELSE 30

\* "30 filesAt Least 4": the third pattern matches earlier in the text, the
\* first pattern of the list decides
C32_Witness ==
    /\ Counted
    /\ req.words = << <<"3", "0">>, <<" ", "f", "i", "l", "e", "s">>,
                      <<"A", "t", " ", "L", "e", "a", "s", "t", " ">>, <<"4">> >>
    /\ req.max_files = 4

\* "give me 304": the number asked for is cut to 30
C32_WitnessCap ==
    /\ Counted
    /\ req.user_message = <<"g", "i", "v", "e", " ", "m", "e", " ", "3", "0", "4">>
    /\ req.max_files = 30

\* a text that names a number but matches no pattern
C32_WitnessDefault ==
    /\ Counted
    /\ req.words = << <<"4">>, <<"x">>, <<" ", "f", "i", "l", "e", "s">> >>
    /\ req.max_files = 15

----------------------------------------------------------------------------
(* Properties of the API client in use, checked under SpecKeys *)

\* C33: every file handle attached to a generation call was uploaded
\* through the API client that issues the call: handles cached for a session
\* under one key are not reused by a query on the session that works with
\* another client.
C33_HandlesFromSameClient ==
    \A p \in Procs :
        inv[p].gen_called =>
            \A i \in 1..Len(inv[p].uploaded_files) :
                inv[p].uploaded_files[i].client = inv[p].api_client

----------------------------------------------------------------------------
(* Properties of the session records, checked under Spec *)

GenerationReached(f) == f.pc = "generate" \/ f.gen_called

\* C34: every record in session_uploads has a non-empty doc_ids set and a
\* non-empty list of handles; a record is only ever written by the return of
\* an upload round of a query on that session, the round having been
\* successful with at least one handle, and the record is the ids of that
\* query's materials with the handles of that round.  So whenever the
\* generation call is reached with a non-empty set of materials, at least one
\* file is attached.
C34_RecordState ==
    /\ \A s \in DOMAIN session_uploads :
          /\ session_uploads[s].doc_ids # {}
          /\ session_uploads[s].file_info # <<>>
    /\ \A p \in Procs :
          (GenerationReached(inv[p]) /\ inv[p].materials_to_use # <<>>)
             => inv[p].uploaded_files # <<>>
C34_RecordStep ==
    \A s \in Sessions :
        (/\ s \in DOMAIN session_uploads'
         /\ (s \in DOMAIN session_uploads => session_uploads'[s] # session_uploads[s]))
        => \E p \in Procs :
              /\ inv[p].pc = "upload"
              /\ inv[p].session_id = s
              /\ inv'[p].upload_result.state = "returned"
              /\ inv'[p].upload_result.success
              /\ inv'[p].upload_result.files >= 1
              /\ session_uploads'[s].doc_ids = IdsOf(inv[p].materials_to_use)
              /\ session_uploads'[s].file_info = inv'[p].uploaded_files
              /\ Len(session_uploads'[s].file_info) = inv'[p].upload_result.files
C34_RecordsAreWholeRounds == []C34_RecordState /\ [][C34_RecordStep]_vars

\* a round in which one of two paths failed left a record, and the
\* generation call of that query has been issued with the one handle
C34_Witness ==
    \E p \in Procs :
        /\ inv[p].gen_called
        /\ inv[p].upload_result.files = 1
        /\ inv[p].upload_result.failed = 1
        /\ inv[p].session_id \in DOMAIN session_uploads
        /\ session_uploads[inv[p].session_id]
              = CacheRecord(IdsOf(inv[p].materials_to_use), inv[p].uploaded_files)
        /\ Len(inv[p].uploaded_files) = 1

\* the handles are those of the storage paths of exactly the documents ids
Covers(handles, ids) ==
    /\ Len(handles) = Cardinality(ids)
    /\ \A id \in ids :
          \E i \in 1..Len(handles), m \in Range(env.catalog) :
              m.id = id /\ handles[i].uri = m.path

\* C35: every record in session_uploads holds one file handle for each
\* document in its doc_ids, and on a cache hit the attached handles cover
\* every document of the current set of materials.
C35_RecordCoversDocIds ==
    /\ \A s \in DOMAIN session_uploads :
          Covers(session_uploads[s].file_info, session_uploads[s].doc_ids)
    /\ \A p \in Procs :
          (GenerationReached(inv[p]) /\ inv[p].materials_to_use # <<>> /\ ~inv[p].need_upload)
             => Covers(inv[p].uploaded_files, IdsOf(inv[p].materials_to_use))

----------------------------------------------------------------------------
(* Properties of overlapping queries on one session, checked under          *)
(* SpecOverlap                                                              *)

\* every handle of the record was uploaded for a document of its doc_ids
PairWhole(record) ==
    \A i \in 1..Len(record.file_info) :
        \E m \in Range(env.catalog) :
            m.id \in record.doc_ids /\ record.file_info[i].uri = m.path

\* p was served from the session's record
Hit(f) == f.pc # "idle" /\ f.materials_to_use # <<>> /\ ~f.need_upload

\* C36: when queries on one session overlap, the record of the session is
\* at all times a pair written whole by one upload round: each of its handles
\* belongs to a document of its doc_ids, every write puts the ids of one
\* query's materials together with the handles of that query's own round, and
\* a hit reuses the handles stored with exactly the doc_ids it matched.
C36_PairState ==
    /\ \A s \in DOMAIN session_uploads : PairWhole(session_uploads[s])
    /\ \A p \in Procs :
          Hit(inv[p]) =>
             /\ inv[p].session_cache.doc_ids = IdsOf(inv[p].materials_to_use)
             /\ inv[p].uploaded_files = inv[p].session_cache.file_info
             /\ PairWhole(inv[p].session_cache)
C36_PairStep ==
    \A s \in Sessions :
        (/\ s \in DOMAIN session_uploads'
         /\ (s \in DOMAIN session_uploads => session_uploads'[s] # session_uploads[s]))
        => \E p \in Procs :
              /\ inv[p].pc = "upload" /\ inv[p].session_id = s
              /\ session_uploads'[s]
                    = CacheRecord(inv[p].selected_doc_ids, inv'[p].uploaded_files)
              /\ \A i \in 1..Len(inv'[p].uploaded_files) :
                    inv'[p].uploaded_files[i].uri \in Range(inv[p].file_paths)
C36_RecordWrittenWhole == []C36_PairState /\ [][C36_PairStep]_vars

\* two queries for different selections both found no record and uploaded;
\* the second write replaced the record of the first; a third query is
\* served from the record the second one wrote
C36_Witness ==
    \E p, q \in Procs :
        /\ p # q
        /\ inv[q].wrote_cache
        /\ inv[q].session_cache = EmptyDict
        /\ inv[q].replaced # EmptyDict
        /\ inv[q].replaced.doc_ids # inv[q].selected_doc_ids
        /\ Hit(inv[p])
        /\ inv[p].pc = "generate"
        /\ inv[p].session_cache = CacheRecord(inv[q].selected_doc_ids, inv[q].uploaded_files)

----------------------------------------------------------------------------
(* Properties of clear_session against queries in flight, checked under Spec *)

\* C37: a query that was suspended on its upload when clear_session ran
\* for its session does not write the session's record when its upload
\* returns: the record stays away until a query started after the clear has
\* uploaded.
C37_ReturnAfterClear ==
    \A p \in Procs :
        (inv[p].pc = "upload" /\ inv[p].cleared_waiting /\ inv'[p].pc # "upload")
            => session_uploads' = session_uploads
C37_ClearedStaysCleared == [][C37_ReturnAfterClear]_vars

----------------------------------------------------------------------------
(* Properties of scope resolution on repeated documents, checked under      *)
(* SpecScope                                                                *)

\* C38: the materials resolved for a query never hold the same catalog
\* entry twice, whatever the selection: an identifier named twice, two
\* identifiers with the same normalised form, the syllabus selected under an
\* identifier that differs from syllabus_id by its extension.
C38_NoMaterialTwice ==
    \A p \in Procs :
        inv[p].pc # "idle" => NoDup(inv[p].materials_to_use)

----------------------------------------------------------------------------
(* Properties of AI-assisted selection inside a manual selection, checked    *)
(* under Spec                                                                *)

\* C39: when smart selection is requested together with a non-empty manual
\* selection, every material the query goes on with is a document of the
\* user's selection (by normalised identifier) or the syllabus, whatever the
\* Selector returned and whether or not summaries are stored.
C39_SmartStaysInSelection ==
    \A p \in Procs :
        LET f == inv[p] IN
        (f.pc # "idle" /\ f.use_smart_selection /\ f.selected_docs # <<>>) =>
            \A m \in Range(f.materials_to_use) :
                \/ m.id = f.syllabus_id
                \/ \E i \in 1..Len(f.selected_docs) :
                      strip_extension_for_matching(m.id)
                         = strip_extension_for_matching(f.selected_docs[i])

----------------------------------------------------------------------------
(* Properties of termination, checked under SpecLive *)

SelRunning  == sel.pc \notin {"off", "returned"}
PollLooping == poll \in {"check", "wait", "yield"}
PollLeft    == poll \in {"moved_on", "status_error", "status_complete"}

\* C40: when every external call returns and the generation stream is
\* finite, every invocation terminates.  The Selector returns, having invoked
\* the external-call helper at most four times, and one invocation of that
\* helper returns after at most two calls of the model service (eight calls
\* for a selection); once the selection task is done the polling loop is
\* left; the drain ends with the queue empty, and the queue is empty from
\* then on; process_query_stream reaches its end, and it does so after the
\* generation call was made or after a terminal message.
C40_EveryInvocationTerminates ==
    /\ [](sel.pc # "off" => sel.ai_calls <= 4)
    /\ [](call.pc # "off" => Len(call.calls) <= 2)
    /\ SelRunning ~> (sel.pc = "returned")
    /\ (call.pc = "primary") ~> (call.pc = "returned")
    /\ (PollLooping /\ sel.pc = "returned") ~> (poll = "drain")
    /\ (poll = "drain") ~> (PollLeft /\ status_queue = <<>>)
    /\ [](PollLeft => status_queue = <<>>)
    /\ \A p \in Procs :
         /\ (inv[p].pc \notin {"idle", "done"}) ~> (inv[p].pc = "done")
         /\ [](inv[p].pc = "done" =>
                  \/ inv[p].gen_called
                  \/ Range(inv[p].out) \cap TerminalMessages # {})

\* a scoped selection that made all four helper calls has returned, its
\* events have been relayed in the loop and in the drain, and the
\* orchestrator has moved on
C40_Witness ==
    /\ sel.pc = "returned"
    /\ sel.ai_calls = 4
    /\ PollLeft
    /\ status_queue = <<>>
    /\ \E i \in 1..Len(relayed) : relayed[i].phase = "drain"
    /\ \E i \in 1..Len(relayed) : relayed[i].phase = "loop"

\* a query that streamed its answer to the end
C40_WitnessQuery ==
    \E p \in Procs :
        /\ inv[p].pc = "done"
        /\ inv[p].gen_called
        /\ "chunk" \in Range(inv[p].out)
        /\ inv[p].chunks_left = 0

\* the external-call helper returned after its second call
C40_WitnessCall == call.pc = "returned" /\ Len(call.calls) = 2

====
